---- MODULE Spec2Model ----
(***************************************************************************)
(* A model of the multilingual retrieval-augmented question answering      *)
(* system: the text splitter (src/src/chunker.py), the cosine retriever    *)
(* (src/src/retriever.py, src/src/vectorizer.py), the vector store         *)
(* boundary (src/src/vector_store.py), the response assembler             *)
(* (src/src/rag_system.py), the HTTP endpoints (src/src/api.py), the       *)
(* document processor (src/src/document_processor.py) and the set-up of    *)
(* the knowledge base (src/src/main.py).                                   *)
(*                                                                         *)
(* A Python str is a sequence of characters, each character a string: an   *)
(* ASCII character is itself, any other is written by its name.  Floats the*)
(* code only adds, averages over at most n_results values, subtracts from  *)
(* 1.0 and compares are exact multiples of 1/Unit.                         *)
(***************************************************************************)
EXTENDS Integers, Sequences, FiniteSets, TLC

VARIABLES
    text,            \* chunker: the text argument
    chunk_size,      \* chunker: the chunk_size argument
    chunk_overlap,   \* chunker: the chunk_overlap argument
    chunks,          \* chunker: the returned list, once pc = "done"
    pc,              \* position of the run: the calls made so far
    knowledge_base_embeddings,  \* Vectorizer: list of (embedding, chunk)
    query,           \* retriever: the query argument
    query_embedding, \* retriever: what get_embedding(query) returned
    top_k,           \* retriever: the top_k argument
    relevant_chunks, \* retriever: the returned list, once pc = "done"
    detect_text,     \* detect_language: the text argument
    language,        \* detect_language: the returned language, once called
    conversation_history,  \* RAGSystem: list of ChatMessage
    clock,           \* the number of datetime.now() readings so far
    question,        \* generate_response: the query argument of the last call
    search_outcome,  \* how the search of the last call ended
    response,        \* generate_response: the outcome of the last call
    request,         \* api: the request served last
    api_response,    \* api: the HTTP response to it
    collection,      \* VectorStore: the documents of the persistent collection
    rag_app,         \* api: the global rag_app
    setup,           \* the last call of setup_knowledge_base and its result
    health           \* api: the last answer of the health endpoint

splitVars == <<text, chunk_size, chunk_overlap, chunks>>
retrieverVars == <<knowledge_base_embeddings, query, query_embedding, top_k,
                   relevant_chunks>>
detectVars == <<detect_text, language>>
ragVars == <<conversation_history, clock, question, search_outcome, response>>
apiVars == <<request, api_response>>
kbVars == <<collection, rag_app, setup, health>>
vars == <<splitVars, retrieverVars, detectVars, ragVars, apiVars, kbVars, pc>>

\* The value of a variable that holds no result yet (Python's None).
None == "None"

\* Each component's variables before any call to it, which is also what they
\* stay at in the runs of the other components.
SplitIdle ==
    /\ text = <<>>
    /\ chunk_size = 1
    /\ chunk_overlap = 0
    /\ chunks = <<>>

RetrieverIdle ==
    /\ knowledge_base_embeddings = <<>>
    /\ query = <<>>
    /\ query_embedding = <<>>
    /\ top_k = 1
    /\ relevant_chunks = <<>>

DetectIdle ==
    /\ detect_text = <<>>
    /\ language = None

\* RAGSystem.__init__: an empty conversation; no call made yet.
RagIdle ==
    /\ conversation_history = <<>>
    /\ clock = 0
    /\ question = <<>>
    /\ search_outcome = [kind |-> "none", results |-> <<>>]
    /\ response = [status |-> "none", keys |-> {}, answer |-> <<>>,
                   sources |-> <<>>, language |-> None, confidence |-> 0,
                   conversation_context |-> <<>>]

\* The service before any request.
ApiIdle ==
    /\ request = [endpoint |-> "none", session_id |-> None, question |-> <<>>]
    /\ api_response = [status_code |-> 0, query_response |-> <<>>,
                       test_results |-> <<>>,
                       summary |-> [total |-> 0, passed |-> 0, failed |-> 0]]

\* An empty collection, no setup_knowledge_base call and no health answer
\* yet, app being the value of rag_app.
KbOf(app) ==
    /\ collection = <<>>
    /\ rag_app = app
    /\ setup = [calls |-> 0, counted |-> <<>>, steps |-> <<>>, result |-> None]
    /\ health = [status_code |-> 0, status |-> None, documents_count |-> 0]

KbIdle == KbOf(None)

(***************************************************************************)
(* Bounds of the model.                                                    *)
(***************************************************************************)
MaxTextLen == 5
MaxChunkSize == 3
MaxOverlap == 4
MaxKb == 3
MaxTopK == 3
MaxShortLen == 3
MaxQueryLen == 10
MaxClock == 12

(***************************************************************************)
(* Characters and the str methods the code uses.                           *)
(***************************************************************************)
\* The characters the regex class \s and str.strip() treat as whitespace.
Whitespace == {" ", "\n"}

\* The characters of the lookbehind class of the first separator: the danda
\* (U+0964, written "danda"), the question mark and the exclamation mark.
SentenceEnders == {"danda", "?", "!"}

IsSpace(c) == c \in Whitespace

RECURSIVE LStrip(_)
LStrip(s) ==
    IF s = <<>> THEN <<>>
    ELSE IF IsSpace(Head(s)) THEN LStrip(Tail(s)) ELSE s

RECURSIVE RStrip(_)
RStrip(s) ==
    IF s = <<>> THEN <<>>
    ELSE IF IsSpace(s[Len(s)]) THEN RStrip(SubSeq(s, 1, Len(s) - 1)) ELSE s

\* str.strip()
Strip(s) == RStrip(LStrip(s))

\* "".join(list)
RECURSIVE Join(_)
Join(ss) == IF ss = <<>> THEN <<>> ELSE Head(ss) \o Join(Tail(ss))

\* The last index e >= i - 1 with s[i..e] all whitespace (a greedy \s* at i).
RECURSIVE WsRunEnd(_, _)
WsRunEnd(s, i) ==
    IF i <= Len(s) /\ IsSpace(s[i]) THEN WsRunEnd(s, i + 1) ELSE i - 1

\* The last index e >= i - 1 with s[i..e] all newlines (a greedy \n* at i).
RECURSIVE NlRunEnd(_, _)
NlRunEnd(s, i) ==
    IF i <= Len(s) /\ s[i] = "\n" THEN NlRunEnd(s, i + 1) ELSE i - 1

SetMax(S) == CHOOSE x \in S : \A y \in S : y <= x

(***************************************************************************)
(* chunker.py: recursive_character_text_splitter                           *)
(***************************************************************************)
\* The separators list, most meaningful first; each regex by a name.
Separators == <<"sentence", "paragraphs", "newline", "whitespace", "chars">>

\* re.sub(r'\s+', ' ', s) from index i on.
RECURSIVE SubWhitespaceRuns(_, _)
SubWhitespaceRuns(s, i) ==
    IF i > Len(s) THEN <<>>
    ELSE IF IsSpace(s[i])
         THEN <<" ">> \o SubWhitespaceRuns(s, WsRunEnd(s, i) + 1)
         ELSE <<s[i]>> \o SubWhitespaceRuns(s, i + 1)

\* re.sub(r'\n\s*\n', '\n\n', s) from index i on: at a newline, the greedy
\* \s* backtracks to the last newline of the whitespace run that follows.
RECURSIVE SubBlankLines(_, _)
SubBlankLines(s, i) ==
    IF i > Len(s) THEN <<>>
    ELSE LET closing == {j \in (i + 1)..WsRunEnd(s, i + 1) : s[j] = "\n"}
         IN  IF s[i] = "\n" /\ closing /= {}
             THEN <<"\n", "\n">> \o SubBlankLines(s, SetMax(closing) + 1)
             ELSE <<s[i]>> \o SubBlankLines(s, i + 1)

\* A clean-up that strips the text and leaves its whitespace runs alone.
StripOnly(txt) == Strip(txt)

\* The clean-up of the text before splitting.
NormalizeText(txt) == SubBlankLines(Strip(SubWhitespaceRuns(txt, 1)), 1)

\* Length of the match of separator sep that starts at index i of s, 0 if none.
MatchLen(sep, s, i) ==
    CASE sep = "sentence" ->
           IF IsSpace(s[i]) /\ i > 1 /\ s[i - 1] \in SentenceEnders
           THEN WsRunEnd(s, i) - i + 1 ELSE 0
      [] sep = "paragraphs" ->
           IF s[i] = "\n" /\ i < Len(s) /\ s[i + 1] = "\n"
           THEN NlRunEnd(s, i) - i + 1 ELSE 0
      [] sep = "newline" -> IF s[i] = "\n" THEN 1 ELSE 0
      [] sep = "whitespace" -> IF IsSpace(s[i]) THEN 1 ELSE 0
      [] OTHER -> 0

\* re.split(sep, s) for a separator that matches no empty string: the scan is
\* at index i with cur the part collected since the last match.
RECURSIVE SplitFrom(_, _, _, _)
SplitFrom(sep, s, i, cur) ==
    IF i > Len(s) THEN <<cur>>
    ELSE LET m == MatchLen(sep, s, i)
         IN  IF m > 0
             THEN <<cur>> \o SplitFrom(sep, s, i + m, <<>>)
             ELSE SplitFrom(sep, s, i + 1, Append(cur, s[i]))

\* re.split(sep, s); the empty pattern matches at every position, the two ends
\* included, and so yields an empty part, each character, an empty part.
ReSplit(sep, s) ==
    IF sep = "chars"
    THEN <<(<<>>)>> \o [i \in 1..Len(s) |-> <<s[i]>>] \o <<(<<>>)>>
    ELSE SplitFrom(sep, s, 1, <<>>)

\* What the loop adds back to a part that is not the last one.
SeparatorText(sep) ==
    CASE sep = "sentence" -> <<" ">>
      [] sep = "paragraphs" -> <<"\n", "\n">>
      [] sep = "newline" -> <<"\n">>
      [] sep = "whitespace" -> <<" ">>
      [] OTHER -> <<>>

\* _split_recursively(segment, separators[k:]), and its loop over parts from
\* part i on.
RECURSIVE SplitRecursively(_, _, _), SplitParts(_, _, _, _)
SplitRecursively(segment, k, size) ==
    IF k > Len(Separators) \/ Len(segment) <= size
    THEN <<segment>>
    ELSE SplitParts(ReSplit(Separators[k], segment), 1, k, size)

SplitParts(parts, i, k, size) ==
    IF i > Len(parts) THEN <<>>
    ELSE LET part == IF i < Len(parts)
                     THEN parts[i] \o SeparatorText(Separators[k])
                     ELSE parts[i]
         IN  IF Strip(parts[i]) = <<>>
             THEN SplitParts(parts, i + 1, k, size)
             ELSE (IF Len(part) > size
                   THEN SplitRecursively(part, k + 1, size)
                   ELSE <<part>>)
                  \o SplitParts(parts, i + 1, k, size)

\* Python's s[-n:] for 0 < n < len(s).
LastChars(s, n) == SubSeq(s, Len(s) - n + 1, Len(s))

\* One iteration of the merge loop: m = [final |-> final_chunks,
\* cur |-> current_chunk_content].
MergePart(m, part, size, overlap) ==
    LET extra == IF Len(m.final) > 0 /\ overlap > 0 THEN 1 ELSE 0
    IN  IF Len(m.cur) + Len(part) + extra > size
        THEN [final |-> IF Strip(m.cur) /= <<>>
                        THEN Append(m.final, Strip(m.cur))
                        ELSE m.final,
              cur   |-> IF overlap > 0 /\ Len(m.cur) > overlap
                        THEN Strip(LastChars(m.cur, overlap)) \o <<" ">> \o Strip(part)
                        ELSE Strip(part)]
        ELSE [final |-> m.final,
              cur   |-> (IF m.cur /= <<>> THEN m.cur \o <<" ">> ELSE m.cur)
                        \o Strip(part)]

RECURSIVE MergeFrom(_, _, _, _, _)
MergeFrom(raw, i, m, size, overlap) ==
    IF i > Len(raw) THEN m
    ELSE MergeFrom(raw, i + 1, MergePart(m, raw[i], size, overlap), size, overlap)

\* final_chunks after the merge loop and the closing append.
MergeChunks(raw, size, overlap) ==
    LET m == MergeFrom(raw, 1, [final |-> <<>>, cur |-> <<>>], size, overlap)
    IN  IF Strip(m.cur) /= <<>> THEN Append(m.final, Strip(m.cur)) ELSE m.final

\* A refinement pass that never slices: an oversized chunk passes through.
RefineChunkUnsliced(chunk, size, overlap) ==
    IF chunk /= <<>> THEN <<chunk>> ELSE <<>>

\* A slice that takes nothing off: chunk[0:] where the code has
\* chunk[chunk_size - chunk_overlap:].
SliceFromStart(s, start) == SubSeq(s, 1, Len(s))

\* Python's s[start:] for any integer start: a negative start counts from
\* the end, and the index is clipped to the string.
SliceFrom(s, start) ==
    LET from == IF start < 0
                THEN (IF Len(s) + start < 0 THEN 0 ELSE Len(s) + start)
                ELSE (IF start > Len(s) THEN Len(s) ELSE start)
    IN  SubSeq(s, from + 1, Len(s))

\* The while loop of the refinement pass on one chunk, when it ends.
RECURSIVE RefineChunk(_, _, _)
RefineChunk(chunk, size, overlap) ==
    IF Len(chunk) > size
    THEN <<SubSeq(chunk, 1, size)>>
         \o RefineChunk(SliceFrom(chunk, size - overlap), size, overlap)
    ELSE IF chunk /= <<>> THEN <<chunk>> ELSE <<>>

\* The while loop of the refinement pass never ends on this chunk: the
\* remainder, a suffix of the chunk, stays longer than size and stops
\* shrinking.
RECURSIVE RefineRunsOn(_, _, _)
RefineRunsOn(chunk, size, overlap) ==
    /\ Len(chunk) > size
    /\ LET rest == SliceFrom(chunk, size - overlap)
       IN  rest = chunk \/ RefineRunsOn(rest, size, overlap)

RECURSIVE RefineChunks(_, _, _)
RefineChunks(final, size, overlap) ==
    IF final = <<>> THEN <<>>
    ELSE RefineChunk(Head(final), size, overlap)
         \o RefineChunks(Tail(final), size, overlap)

\* A final filter that also drops the chunks of one character.
LongerThanOne(c) == Len(Strip(c)) > 1

NotBlank(c) == Strip(c) /= <<>>

\* The call never returns: the refinement loop runs on for one of the
\* merged chunks.
SplitterRunsOn(txt, size, overlap) ==
    /\ txt /= <<>>
    /\ LET final_chunks ==
             MergeChunks(SplitRecursively(NormalizeText(txt), 1, size),
                         size, overlap)
       IN  \E i \in 1..Len(final_chunks) :
              RefineRunsOn(final_chunks[i], size, overlap)

\* The list the call returns, when it returns.
recursive_character_text_splitter(txt, size, overlap) ==
    IF txt = <<>> THEN <<>>
    ELSE LET raw_chunks == SplitRecursively(NormalizeText(txt), 1, size)
             final_chunks == MergeChunks(raw_chunks, size, overlap)
         IN  SelectSeq(RefineChunks(final_chunks, size, overlap), NotBlank)

(***************************************************************************)
(* The splitter as a state machine: one call per run.                      *)
(***************************************************************************)
SplitAlphabet == {"a", "danda", " ", "\n"}

RECURSIVE Texts(_, _)
Texts(alphabet, n) ==
    IF n = 0 THEN {<<>>}
    ELSE LET shorter == Texts(alphabet, n - 1)
         IN  shorter \cup {Append(s, c) : s \in shorter, c \in alphabet}

InitSplit ==
    /\ text \in Texts(SplitAlphabet, MaxTextLen)
    /\ chunk_size \in 1..MaxChunkSize
    /\ chunk_overlap \in 0..(chunk_size - 1)
    /\ chunks = <<>>
    /\ pc = "call"
    /\ RetrieverIdle
    /\ DetectIdle
    /\ RagIdle
    /\ ApiIdle
    /\ KbIdle

\* One call: it returns its list, or it stays in the refinement loop.
CallSplitter ==
    /\ pc = "call"
    /\ IF SplitterRunsOn(text, chunk_size, chunk_overlap)
       THEN /\ pc' = "running"
            /\ chunks' = chunks
       ELSE /\ pc' = "done"
            /\ chunks' = recursive_character_text_splitter(text, chunk_size,
                                                           chunk_overlap)
    /\ UNCHANGED <<text, chunk_size, chunk_overlap, retrieverVars, detectVars,
                   ragVars, apiVars, kbVars>>

NextSplit == CallSplitter

SpecSplit == InitSplit /\ [][NextSplit]_vars

\* The same call with any overlap, also one that is no less than chunk_size.
InitSplitAnyOverlap ==
    /\ text \in Texts(SplitAlphabet, MaxTextLen)
    /\ chunk_size \in 1..MaxChunkSize
    /\ chunk_overlap \in 0..MaxOverlap
    /\ chunks = <<>>
    /\ pc = "call"
    /\ RetrieverIdle
    /\ DetectIdle
    /\ RagIdle
    /\ ApiIdle
    /\ KbIdle

SpecSplitAnyOverlap == InitSplitAnyOverlap /\ [][NextSplit]_vars

\* final_chunks of the call, before the refinement pass.
FinalChunksOfCall ==
    MergeChunks(SplitRecursively(NormalizeText(text), 1, chunk_size),
                chunk_size, chunk_overlap)

\* C1: for every text, chunk_size >= 1 and 0 <= chunk_overlap < chunk_size,
\* every returned chunk is at most chunk_size characters long.
ChunksWithinSize ==
    pc = "done" => \A i \in 1..Len(chunks) : Len(chunks[i]) <= chunk_size

\* C1 witness: a call with an overlap whose merge pass left a chunk longer
\* than chunk_size, which the refinement pass then sliced.
ChunksWithinSizeWitness ==
    /\ pc = "done"
    /\ chunk_overlap > 0
    /\ \E i \in 1..Len(FinalChunksOfCall) : Len(FinalChunksOfCall[i]) > chunk_size
    /\ Len(chunks) > Len(FinalChunksOfCall)

\* C2 as claimed: with chunk_overlap = 0 the chunks of a non-empty text,
\* concatenated in order, are the whitespace-normalized text.
ConcatenationIsNormalizedText ==
    (pc = "done" /\ text /= <<>> /\ chunk_overlap = 0)
        => Join(chunks) = NormalizeText(text)

\* C15 as claimed: a call with chunk_overlap >= chunk_size fails with a
\* configuration error: it neither returns chunks nor runs on.
OverlapNotBelowSizeIsRejected ==
    (pc /= "call" /\ chunk_overlap >= chunk_size) => pc = "raised"

\* C16 as claimed: with 0 < chunk_overlap < chunk_size and more than one
\* chunk returned, the last chunk_overlap characters of every chunk are the
\* leading characters of the next one.
OverlapLeadsNextChunk ==
    (pc = "done" /\ 0 < chunk_overlap /\ chunk_overlap < chunk_size
       /\ Len(chunks) > 1)
        => \A i \in 1..(Len(chunks) - 1) :
              /\ Len(chunks[i]) >= chunk_overlap
              /\ Len(chunks[i + 1]) >= chunk_overlap
              /\ SubSeq(chunks[i], Len(chunks[i]) - chunk_overlap + 1,
                        Len(chunks[i]))
                   = SubSeq(chunks[i + 1], 1, chunk_overlap)

NotSpace(c) == ~IsSpace(c)

\* C17: with chunk_overlap = 0 the characters of the chunks that are no
\* whitespace, in order, are those of the text: none is emitted twice and
\* none is lost.
NoOverlapKeepsEachCharacterOnce ==
    (pc = "done" /\ chunk_overlap = 0)
        => SelectSeq(Join(chunks), NotSpace) = SelectSeq(text, NotSpace)

\* C17 witness: a text with a danda and a space between letters, returned
\* as more than one chunk with no overlap.
NoOverlapWitness ==
    /\ pc = "done"
    /\ chunk_overlap = 0
    /\ Len(chunks) > 1
    /\ \E i, j \in 1..Len(text) : text[i] = "danda" /\ text[j] = " "
    /\ Len(SelectSeq(text, NotSpace)) >= 3

RECURSIVE CollapseWhitespace(_)
CollapseWhitespace(s) ==
    IF s = <<>> THEN <<>>
    ELSE IF IsSpace(Head(s))
         THEN <<" ">> \o CollapseWhitespace(LStrip(s))
         ELSE <<Head(s)>> \o CollapseWhitespace(Tail(s))

Embeddings == {<<1, 0>>, <<0, 1>>, <<1, 1>>, <<2, 1>>, <<-1, 0>>, <<0, 0>>}

NoEmbedding == <<>>

RECURSIVE Dot(_, _)
Dot(u, v) ==
    IF u = <<>> \/ v = <<>> THEN 0
    ELSE Head(u) * Head(v) + Dot(Tail(u), Tail(v))

\* The squared norm sklearn's normalize divides by: a zero norm is taken as 1.
SafeNorm2(v) == IF Dot(v, v) = 0 THEN 1 ELSE Dot(v, v)

Abs(x) == IF x < 0 THEN -x ELSE x

\* cosine_similarity(q, u) < cosine_similarity(q, v), in exact arithmetic:
\* x / sqrt(A) < y / sqrt(B) iff x|x|B < y|y|A, the norm of q being common.
SimLess(q, u, v) ==
    Dot(q, u) * Abs(Dot(q, u)) * SafeNorm2(v)
        < Dot(q, v) * Abs(Dot(q, v)) * SafeNorm2(u)

\* Cosine distance is 1 - cosine similarity.
DistLess(q, u, v) == SimLess(q, v, u)

\* Vectorizer.vectorize_chunks on a list of n chunks (chunk i standing for
\* the text of the i-th chunk): the legacy list keeps the chunks whose
\* embedding succeeded, in order.
RECURSIVE EmbedChunks(_, _)
EmbedChunks(embs, i) ==
    IF i > Len(embs) THEN <<>>
    ELSE (IF embs[i] /= NoEmbedding
          THEN <<[embedding |-> embs[i], chunk |-> i]>>
          ELSE <<>>)
         \o EmbedChunks(embs, i + 1)

\* The orders numpy's argsort may return for the similarities of kb to q:
\* ascending similarity; the default sort is not stable, so equal
\* similarities come in any order.
Argsorts(q, kb) ==
    {p \in [1..Len(kb) -> 1..Len(kb)] :
        /\ \A i, j \in 1..Len(kb) : i /= j => p[i] /= p[j]
        /\ \A i, j \in 1..Len(kb) :
              i < j => ~SimLess(q, kb[p[j]].embedding, kb[p[i]].embedding)}

Min(a, b) == IF a < b THEN a ELSE b
Max(a, b) == IF a < b THEN b ELSE a

\* Python's a[:k] in place of a[-k:]: the k least similar.
FirstKWrong(a, k) == SubSeq(a, 1, Min(Max(k, 0), Len(a)))

\* Python's a[-k:] for any integer k: the start index -k counts from the end
\* when negative and from the front otherwise, clipped to the list.
LastK(a, k) ==
    LET start == IF -k < 0 THEN Max(Len(a) - k, 0) ELSE Min(-k, Len(a))
    IN  SubSeq(a, start + 1, Len(a))

\* Python's a[::-1]
Reverse(a) == [i \in 1..Len(a) |-> a[Len(a) + 1 - i]]

\* Retriever.retrieve_relevant_chunks with emb the result of get_embedding
\* and order the result of argsort.
retrieve_relevant_chunks(q, emb, kb, k, order) ==
    IF q = <<>> THEN <<>>
    ELSE IF emb = NoEmbedding THEN <<>>
    ELSE IF kb = <<>> THEN <<>>
    ELSE LET top_k_indices == Reverse(LastK(order, k))
         IN  [i \in 1..Len(top_k_indices) |-> kb[top_k_indices[i]].chunk]

\* The queries a caller passes: the empty string and a question.
RetrieverQueries == {<<>>, <<"q">>}

\* The top_k values a caller passes, 10 for the case of a top_k above the size.
TopKs == (-MaxTopK..MaxTopK) \cup {10}

InitRetrieve ==
    /\ pc = "build"
    /\ RetrieverIdle
    /\ SplitIdle
    /\ DetectIdle
    /\ RagIdle
    /\ ApiIdle
    /\ KbIdle

\* vectorize_chunks(chunks) with a provider whose get_embedding returns the
\* lists in provided: when the FAISS build raises, the except branch leaves
\* the legacy list as it was.
VectorizeChunksOf(provided) ==
    /\ pc = "build"
    /\ \E n \in 0..MaxKb, faiss_ok \in BOOLEAN :
         \E embs \in [1..n -> provided] :
            knowledge_base_embeddings' =
                IF faiss_ok THEN EmbedChunks(embs, 1)
                ELSE knowledge_base_embeddings
    /\ pc' = "ready"
    /\ UNCHANGED <<query, query_embedding, top_k, relevant_chunks, splitVars,
                   detectVars, ragVars, apiVars, kbVars>>

VectorizeChunks == VectorizeChunksOf(Embeddings \cup {NoEmbedding})

\* A stored vector is not as long as the query's: np.array builds no matrix
\* of the stored vectors, or cosine_similarity finds the shapes
\* incompatible, and a ValueError leaves retrieve_relevant_chunks.
DimensionsDisagree(emb, kb) ==
    \E i \in 1..Len(kb) : Len(kb[i].embedding) /= Len(emb)

\* retrieve_relevant_chunks(query, top_k) with the same provider.
RetrieveRelevantChunksOf(provided) ==
    /\ pc = "ready"
    /\ \E emb \in provided :
         IF emb = NoEmbedding \/ ~DimensionsDisagree(emb, knowledge_base_embeddings)
         THEN /\ \E order \in Argsorts(emb, knowledge_base_embeddings) :
                   \E q \in RetrieverQueries, k \in TopKs :
                      /\ query' = q
                      /\ query_embedding' = IF q = <<>> THEN NoEmbedding ELSE emb
                      /\ top_k' = k
                      /\ relevant_chunks' =
                            retrieve_relevant_chunks(q, emb,
                                                     knowledge_base_embeddings,
                                                     k, order)
              /\ pc' = "done"
         ELSE \E q \in RetrieverQueries, k \in TopKs :
                 /\ query' = q
                 /\ query_embedding' = IF q = <<>> THEN NoEmbedding ELSE emb
                 /\ top_k' = k
                 /\ IF q = <<>>
                    THEN relevant_chunks' = <<>> /\ pc' = "done"
                    ELSE relevant_chunks' = relevant_chunks /\ pc' = "raised"
    /\ UNCHANGED <<knowledge_base_embeddings, splitVars, detectVars, ragVars,
                   apiVars, kbVars>>

RetrieveRelevantChunks == RetrieveRelevantChunksOf(Embeddings \cup {NoEmbedding})

NextRetrieve == VectorizeChunks \/ RetrieveRelevantChunks

SpecRetrieve == InitRetrieve /\ [][NextRetrieve]_vars

\* The same index with a provider that does not keep to one vector length.
AnyLengthEmbeddings == {<<1, 0>>, <<0, 1>>, <<1>>}

VectorizeChunksAnyLength ==
    VectorizeChunksOf(AnyLengthEmbeddings \cup {NoEmbedding})

RetrieveAnyLength ==
    RetrieveRelevantChunksOf(AnyLengthEmbeddings \cup {NoEmbedding})

NextAnyLength == VectorizeChunksAnyLength \/ RetrieveAnyLength

SpecAnyLength == InitRetrieve /\ [][NextAnyLength]_vars

\* The stored embedding of a returned chunk.
EmbeddingOf(c) ==
    (CHOOSE e \in {knowledge_base_embeddings[i] :
                      i \in 1..Len(knowledge_base_embeddings)} :
        e.chunk = c).embedding

KbChunks ==
    {knowledge_base_embeddings[i].chunk : i \in 1..Len(knowledge_base_embeddings)}

Returned == {relevant_chunks[i] : i \in 1..Len(relevant_chunks)}

\* C3: for a non-empty query whose embedding succeeded and top_k >= 1, the
\* result holds exactly min(top_k, n) distinct chunks of the index, in
\* ascending order of cosine distance, and no chunk left out is nearer to the
\* query than a chunk returned.
RetrieveNearestAscending ==
    (pc = "done" /\ query /= <<>> /\ query_embedding /= NoEmbedding /\ top_k >= 1)
        => /\ Len(relevant_chunks) = Min(top_k, Len(knowledge_base_embeddings))
           /\ Cardinality(Returned) = Len(relevant_chunks)
           /\ Returned \subseteq KbChunks
           /\ \A i, j \in 1..Len(relevant_chunks) :
                 i < j => ~DistLess(query_embedding,
                                    EmbeddingOf(relevant_chunks[j]),
                                    EmbeddingOf(relevant_chunks[i]))
           /\ \A c \in Returned, d \in KbChunks \ Returned :
                 ~DistLess(query_embedding, EmbeddingOf(d), EmbeddingOf(c))

\* C3 witness: three stored vectors at three different distances from the
\* query, and a top_k that keeps only the nearest.
RetrieveNearestWitness ==
    /\ pc = "done"
    /\ query /= <<>>
    /\ query_embedding /= NoEmbedding
    /\ Len(knowledge_base_embeddings) = 3
    /\ \A c, d \in KbChunks :
          c /= d => \/ DistLess(query_embedding, EmbeddingOf(c), EmbeddingOf(d))
                    \/ DistLess(query_embedding, EmbeddingOf(d), EmbeddingOf(c))
    /\ top_k = 1
    /\ Len(relevant_chunks) = 1

\* Two stored chunks at exactly the same cosine distance from the query.
SameDistance(c, d) ==
    /\ ~DistLess(query_embedding, EmbeddingOf(c), EmbeddingOf(d))
    /\ ~DistLess(query_embedding, EmbeddingOf(d), EmbeddingOf(c))

\* C19 as claimed: chunks at the same distance are returned in insertion
\* order (a chunk is numbered by its position in the list given to
\* vectorize_chunks), and where top_k cuts through a tie the chunks kept are
\* the ones inserted earlier.
TiesInInsertionOrder ==
    (pc = "done" /\ query /= <<>> /\ query_embedding /= NoEmbedding /\ top_k >= 1)
        => /\ \A i, j \in 1..Len(relevant_chunks) :
                 (i < j /\ SameDistance(relevant_chunks[i], relevant_chunks[j]))
                    => relevant_chunks[i] < relevant_chunks[j]
           /\ \A c \in Returned, d \in KbChunks \ Returned :
                 SameDistance(c, d) => c < d

\* C20 as claimed: all the vectors stored in the index have the same
\* dimensionality, a record of another one being rejected on insertion.
StoredVectorsShareDimension ==
    \A i, j \in 1..Len(knowledge_base_embeddings) :
        Len(knowledge_base_embeddings[i].embedding)
            = Len(knowledge_base_embeddings[j].embedding)

\* C4 as claimed: on a non-empty index a top_k <= 0 returns the empty list.
NonPositiveTopKReturnsNothing ==
    (pc = "done" /\ knowledge_base_embeddings /= <<>> /\ top_k <= 0)
        => relevant_chunks = <<>>

(***************************************************************************)
(* rag_system.py: the characters of its strings                            *)
(***************************************************************************)
LatinLower ==
    <<"a", "b", "c", "d", "e", "f", "g", "h", "i", "j", "k", "l", "m", "n",
      "o", "p", "q", "r", "s", "t", "u", "v", "w", "x", "y", "z">>

LatinUpper ==
    <<"A", "B", "C", "D", "E", "F", "G", "H", "I", "J", "K", "L", "M", "N",
      "O", "P", "Q", "R", "S", "T", "U", "V", "W", "X", "Y", "Z">>

Range(f) == {f[i] : i \in DOMAIN f}

\* The Bengali letters (Unicode category Lo) of the program's strings.
BengaliLetters ==
    {"bn_a", "bn_aa", "bn_i", "bn_u", "bn_e", "bn_ka", "bn_kha", "bn_ga",
     "bn_nga", "bn_ca", "bn_cha", "bn_nna", "bn_ta", "bn_tha", "bn_da",
     "bn_na", "bn_pa", "bn_ba", "bn_bha", "bn_ma", "bn_ya", "bn_ra",
     "bn_la", "bn_sha", "bn_ssa", "bn_sa", "bn_ha"}

\* The characters of the Bengali block U+0980..U+09FF that are no letters:
\* vowel signs, virama, nukta and visarga (categories Mc, Mn) and digits (Nd).
BengaliSignsAndDigits ==
    {"bn_visarga", "bn_nukta", "bn_sign_aa", "bn_sign_i", "bn_sign_ii",
     "bn_sign_u", "bn_sign_vocalic_r", "bn_sign_e", "bn_sign_o",
     "bn_virama", "bn_1", "bn_5"}

\* '\u0980' <= c <= '\u09FF'
InBengaliBlock(c) == c \in BengaliLetters \cup BengaliSignsAndDigits

\* str.isalpha() of one character
IsAlpha(c) == c \in Range(LatinLower) \cup Range(LatinUpper) \cup BengaliLetters

\* str.isupper() of one character
IsUpper(c) == c \in Range(LatinUpper)

\* str.lower(): only the Latin capitals have a lowercase form.
LowerChar(c) ==
    IF c \in Range(LatinUpper)
    THEN LatinLower[CHOOSE i \in DOMAIN LatinUpper : LatinUpper[i] = c]
    ELSE c

Lower(s) == [i \in 1..Len(s) |-> LowerChar(s[i])]

(***************************************************************************)
(* rag_system.py: RAGSystem.detect_language                                *)
(***************************************************************************)
\* A detection whose threshold is one half.
detect_language_half(txt) ==
    LET bengali_chars == Cardinality({i \in 1..Len(txt) : InBengaliBlock(txt[i])})
        total_chars == Cardinality({i \in 1..Len(txt) : IsAlpha(txt[i])})
    IN  IF total_chars = 0 THEN "english"
        ELSE IF bengali_chars * 2 > total_chars THEN "bengali" ELSE "english"

\* bengali_chars / total_chars > 0.3 is 10 * bengali_chars > 3 * total_chars:
\* the quotient of two small integers rounds to the float 0.3 only at 3/10.
detect_language(txt) ==
    LET bengali_chars == Cardinality({i \in 1..Len(txt) : InBengaliBlock(txt[i])})
        total_chars == Cardinality({i \in 1..Len(txt) : IsAlpha(txt[i])})
    IN  IF total_chars = 0 THEN "english"
        ELSE IF bengali_chars * 10 > 3 * total_chars THEN "bengali" ELSE "english"

\* The characters of the texts detection is called on: a Latin letter, a
\* Bengali letter, a Bengali vowel sign and a space.
DetectAlphabet == {"a", "bn_ka", "bn_sign_aa", " "}

Repeat(c, n) == [i \in 1..n |-> c]

\* The texts of at most n characters in which equal characters are adjacent.
BlockTexts(n) ==
    {Repeat("a", t[1]) \o Repeat("bn_ka", t[2]) \o Repeat("bn_sign_aa", t[3])
        \o Repeat(" ", t[4]) :
        t \in {u \in (0..n) \X (0..n) \X (0..n) \X (0..n) :
                 u[1] + u[2] + u[3] + u[4] <= n}}

\* Every short text, and the longer ones up to the order of their characters.
DetectTexts == Texts(DetectAlphabet, MaxShortLen) \cup BlockTexts(MaxQueryLen)

InitDetect ==
    /\ detect_text \in DetectTexts
    /\ language = None
    /\ pc = "call"
    /\ SplitIdle
    /\ RetrieverIdle
    /\ RagIdle
    /\ ApiIdle
    /\ KbIdle

CallDetectLanguage ==
    /\ pc = "call"
    /\ language' = detect_language(detect_text)
    /\ pc' = "done"
    /\ UNCHANGED <<detect_text, splitVars, retrieverVars, ragVars, apiVars, kbVars>>

NextDetect == CallDetectLanguage

SpecDetect == InitDetect /\ [][NextDetect]_vars

\* The alphabetic characters of the text, and the Bengali ones among them.
AlphaCount == Cardinality({i \in 1..Len(detect_text) : IsAlpha(detect_text[i])})

BengaliAlphaCount ==
    Cardinality({i \in 1..Len(detect_text) :
                    IsAlpha(detect_text[i]) /\ InBengaliBlock(detect_text[i])})

\* C7 as claimed: english without alphabetic characters; otherwise bengali
\* exactly when the Bengali alphabetic characters are more than 0.3 of the
\* alphabetic characters.
LanguageByShareOfAlphabetic ==
    pc = "done" =>
        language = IF AlphaCount = 0 THEN "english"
                   ELSE IF 10 * BengaliAlphaCount > 3 * AlphaCount THEN "bengali"
                   ELSE "english"

\* C8 as claimed: a share of at least 30% Bengali characters among the
\* alphabetic ones, exactly 30% included, is classified bengali.
AtLeastThirtyPercentIsBengali ==
    (pc = "done" /\ AlphaCount > 0 /\ 10 * BengaliAlphaCount >= 3 * AlphaCount)
        => language = "bengali"

\* C8 amended: a share of more than 30% Bengali characters among the
\* alphabetic ones is classified bengali.
MoreThanThirtyPercentIsBengali ==
    (pc = "done" /\ AlphaCount > 0 /\ 10 * BengaliAlphaCount > 3 * AlphaCount)
        => language = "bengali"

\* C8 witness: a detected text of ten letters, four of them Bengali.
MoreThanThirtyPercentWitness ==
    /\ pc = "done"
    /\ AlphaCount = 10
    /\ BengaliAlphaCount = 4
    /\ language = "bengali"

(***************************************************************************)
(* vector_store.py: VectorStore.search_similar                             *)
(***************************************************************************)
\* The number that stands for the float 1.0: a distance or a confidence x is
\* the integer x * Unit, so that a mean of one, two or three distances that
\* are multiples of a tenth is exact.
Unit == 60

\* n_results of the search generate_response makes.
NResults == 3

\* A search that lets the failure of the embedding model or of the
\* collection escape.
search_similar_unguarded(o) ==
    [raised |-> o.kind /= "ok",
     docs   |-> IF o.kind = "ok"
                THEN [i \in 1..Len(o.results) |->
                        [content  |-> o.results[i].content,
                         distance |-> o.results[i].distance,
                         metadata |-> o.results[i].metadata]]
                ELSE <<>>]

\* search_similar(query, n_results) when encode and collection.query end as
\* o tells: o.kind is "ok" with the rows o.results of the query, or
\* "embed_error" or "query_error" when one of them raises.  The except
\* branch returns [], so nothing is ever raised.
search_similar(o) ==
    [raised |-> FALSE,
     docs   |-> IF o.kind = "ok"
                THEN [i \in 1..Len(o.results) |->
                        [content  |-> o.results[i].content,
                         distance |-> o.results[i].distance,
                         metadata |-> o.results[i].metadata]]
                ELSE <<>>]

(***************************************************************************)
(* rag_system.py: RAGSystem                                                *)
(***************************************************************************)
response_templates ==
    [bengali |->
       [no_context |->
        <<"bn_da", "bn_sign_u", "bn_visarga", "bn_kha", "bn_sign_i",
          "bn_ta", ",", " ", "bn_e", "bn_i", " ", "bn_pa", "bn_virama",
          "bn_ra", "bn_sha", "bn_virama", "bn_na", "bn_sign_e", "bn_ra",
          " ", "bn_u", "bn_ta", "bn_virama", "bn_ta", "bn_ra", " ", "bn_aa",
          "bn_ma", "bn_sign_aa", "bn_ra", " ", "bn_ka", "bn_sign_aa",
          "bn_cha", "bn_sign_e", " ", "bn_na", "bn_sign_e", "bn_i", "danda">>,
        context_intro |->
        <<"bn_pa", "bn_virama", "bn_ra", "bn_da", "bn_ta", "bn_virama",
          "bn_ta", " ", "bn_ta", "bn_tha", "bn_virama", "bn_ya", " ",
          "bn_a", "bn_na", "bn_sign_u", "bn_ya", "bn_sign_aa", "bn_ya",
          "bn_nukta", "bn_sign_ii", ":">>,
        uncertain |->
        <<"bn_aa", "bn_ma", "bn_sign_i", " ", "bn_na", "bn_sign_i",
          "bn_sha", "bn_virama", "bn_ca", "bn_sign_i", "bn_ta", " ",
          "bn_na", "bn_i", ",", " ", "bn_ta", "bn_ba", "bn_sign_e", " ",
          "bn_pa", "bn_virama", "bn_ra", "bn_sa", "bn_nga", "bn_virama",
          "bn_ga", " ", "bn_a", "bn_na", "bn_sign_u", "bn_ya", "bn_sign_aa",
          "bn_ya", "bn_nukta", "bn_sign_ii", ":">>],
     english |->
       [no_context |->
        <<"I", "'", "m", " ", "s", "o", "r", "r", "y", ",", " ", "I", " ",
          "d", "o", "n", "'", "t", " ", "h", "a", "v", "e", " ", "i", "n",
          "f", "o", "r", "m", "a", "t", "i", "o", "n", " ", "a", "b", "o",
          "u", "t", " ", "t", "h", "i", "s", " ", "q", "u", "e", "s", "t",
          "i", "o", "n", ".">>,
        context_intro |->
        <<"B", "a", "s", "e", "d", " ", "o", "n", " ", "t", "h", "e", " ",
          "a", "v", "a", "i", "l", "a", "b", "l", "e", " ", "i", "n", "f",
          "o", "r", "m", "a", "t", "i", "o", "n", ":">>,
        uncertain |->
        <<"I", "'", "m", " ", "n", "o", "t", " ", "e", "n", "t", "i", "r",
          "e", "l", "y", " ", "c", "e", "r", "t", "a", "i", "n", ",", " ",
          "b", "u", "t", " ", "b", "a", "s", "e", "d", " ", "o", "n", " ",
          "t", "h", "e", " ", "c", "o", "n", "t", "e", "x", "t", ":">>]]

\* The length the conversation history is cut back to.
MaxHistory == 10

\* The number of messages get_conversation_context shows.
RecentMessages == 4

\* The length the fallback answer is cut to.
AnswerLimit == 200

\* The length a source's content is cut to.
SnippetLimit == 100

\* Python's s[:n] for n >= 0.
FirstChars(s, n) == SubSeq(s, 1, Min(n, Len(s)))

\* An add_to_conversation that cuts back to the first ten messages.
add_to_conversation_keep_first(history, content, msg_type, now) ==
    LET appended == Append(history, [content |-> content, timestamp |-> now,
                                     type |-> msg_type])
    IN  IF Len(appended) > MaxHistory THEN FirstChars(appended, MaxHistory)
        ELSE appended

\* add_to_conversation putting the message in front of the list where the
\* code appends it.
add_to_conversation_in_front(history, content, msg_type, now) ==
    LET inserted == <<[content |-> content, timestamp |-> now,
                       type |-> msg_type]>> \o history
    IN  IF Len(inserted) > MaxHistory THEN LastK(inserted, MaxHistory)
        ELSE inserted

\* add_to_conversation(content, msg_type) on the list history, with now the
\* reading of datetime.now(): the new value of conversation_history.
add_to_conversation(history, content, msg_type, now) ==
    LET appended == Append(history, [content |-> content, timestamp |-> now,
                                     type |-> msg_type])
    IN  IF Len(appended) > MaxHistory THEN LastK(appended, MaxHistory)
        ELSE appended

\* sep.join(list)
RECURSIVE JoinWith(_, _)
JoinWith(sep, ss) ==
    IF ss = <<>> THEN <<>>
    ELSE IF Len(ss) = 1 THEN Head(ss)
    ELSE Head(ss) \o sep \o JoinWith(sep, Tail(ss))

\* The header of the recent-conversation view and the label of a message.
RecentHeader ==
    <<"R", "e", "c", "e", "n", "t", " ", "c", "o", "n", "v", "e", "r",
      "s", "a", "t", "i", "o", "n", ":">>

RoleLabel(msg_type) ==
    IF msg_type = "user" THEN <<"U", "s", "e", "r">>
    ELSE <<"A", "s", "s", "i", "s", "t", "a", "n", "t">>

\* get_conversation_context reading conversation_history[:4] where the
\* code reads conversation_history[-4:].
get_conversation_context_oldest(history) ==
    IF history = <<>> THEN <<>>
    ELSE LET recent == FirstChars(history, RecentMessages)
             Line(msg) ==
                 RoleLabel(msg.type) \o <<":", " ">> \o msg.content \o <<"\n">>
         IN  <<"\n">> \o RecentHeader \o <<"\n">>
             \o Join([i \in 1..Len(recent) |-> Line(recent[i])])

\* get_conversation_context on the list history.
get_conversation_context(history) ==
    IF history = <<>> THEN <<>>
    ELSE LET recent == LastK(history, RecentMessages)
             Line(msg) ==
                 (IF msg.type = "user"
                  THEN <<"U", "s", "e", "r">>
                  ELSE <<"A", "s", "s", "i", "s", "t", "a", "n", "t">>)
                 \o <<":", " ">> \o msg.content \o <<"\n">>
         IN  <<"\n">>
             \o <<"R", "e", "c", "e", "n", "t", " ", "c", "o", "n", "v", "e", "r",
          "s", "a", "t", "i", "o", "n", ":">>
             \o <<"\n">>
             \o Join([i \in 1..Len(recent) |-> Line(recent[i])])

\* needle in hay
Contains(hay, needle) ==
    \E i \in 0..(Len(hay) - Len(needle)) :
        SubSeq(hay, i + 1, i + Len(needle)) = needle

\* The k-th smallest element of a set of integers.
Nth(S, k) == CHOOSE x \in S : Cardinality({y \in S : y < x}) = k - 1

\* s.split(c) for a character c: the parts between the occurrences of c.
SplitOnChar(s, c) ==
    LET at == {i \in 1..Len(s) : s[i] = c}
        Cut(k) == IF k = 0 THEN 0
                  ELSE IF k > Cardinality(at) THEN Len(s) + 1
                  ELSE Nth(at, k)
    IN  [k \in 1..(Cardinality(at) + 1) |->
           SubSeq(s, Cut(k - 1) + 1, Cut(k) - 1)]

\* s.split(): the maximal runs of characters that are no whitespace.
Words(s) ==
    LET starts == {i \in 1..Len(s) :
                     ~IsSpace(s[i]) /\ (i = 1 \/ IsSpace(s[i - 1]))}
        ends == {i \in 1..Len(s) :
                   ~IsSpace(s[i]) /\ (i = Len(s) \/ IsSpace(s[i + 1]))}
    IN  [k \in 1..Cardinality(starts) |->
           SubSeq(s, Nth(starts, k), Nth(ends, k))]

SetMin(S) == CHOOSE x \in S : \A y \in S : x <= y

\* The pattern table, in the order of the dict.
bengali_patterns ==
    << [pattern |->
        <<"bn_sa", "bn_sign_u", "bn_pa", "bn_sign_u", "bn_ra", "bn_sign_u",
          "bn_ssa", " ", "bn_ka", "bn_sign_aa", "bn_ka", "bn_sign_e">>,
        answers |->
        << <<"bn_sha", "bn_sign_u", "bn_ma", "bn_virama", "bn_bha",
          "bn_sign_u", "bn_na", "bn_sign_aa", "bn_tha">>,
           <<"bn_sha", "bn_sign_u", "bn_ma", "bn_virama", "bn_bha",
          "bn_sign_u">> >>],
       [pattern |->
        <<"bn_bha", "bn_sign_aa", "bn_ga", "bn_virama", "bn_ya", " ",
          "bn_da", "bn_sign_e", "bn_ba", "bn_ta", "bn_sign_aa">>,
        answers |->
        << <<"bn_ma", "bn_sign_aa", "bn_ma", "bn_sign_aa">>,
           <<"bn_ma", "bn_sign_aa", "bn_ma", "bn_sign_aa", "bn_ka",
          "bn_sign_e">> >>],
       [pattern |->
        <<"bn_ka", "bn_la", "bn_virama", "bn_ya", "bn_sign_aa", "bn_nna",
          "bn_sign_ii", "bn_ra", " ", "bn_pa", "bn_virama", "bn_ra",
          "bn_ka", "bn_sign_vocalic_r", "bn_ta", " ", "bn_ba", "bn_ya",
          "bn_nukta", "bn_sa">>,
        answers |->
        << <<"bn_1", "bn_5">>,
           <<"bn_1", "bn_5", " ", "bn_ba", "bn_cha", "bn_ra">>,
           <<"bn_pa", "bn_na", "bn_sign_e", "bn_ra", "bn_sign_o">> >>] >>

\* The answers of one pattern that occur in the context, as indexes.
AnswersIn(answers, full_context) ==
    {j \in 1..Len(answers) : Contains(full_context, answers[j])}

\* A pattern loop that returns the last answer of the pattern that occurs in
\* the context.
PatternAnswerLastCandidate(q, full_context) ==
    LET hits == {i \in 1..Len(bengali_patterns) :
                    /\ Contains(q, bengali_patterns[i].pattern)
                    /\ AnswersIn(bengali_patterns[i].answers, full_context) /= {}}
    IN  IF hits = {} THEN <<>>
        ELSE LET answers == bengali_patterns[SetMin(hits)].answers
             IN  <<answers[SetMax(AnswersIn(answers, full_context))]>>

\* The pattern loop: <<answer>> for the first pattern in the query with an
\* answer in the context (its first such answer), <<>> when the loop ends
\* without a return.
PatternAnswer(q, full_context) ==
    LET hits == {i \in 1..Len(bengali_patterns) :
                    /\ Contains(q, bengali_patterns[i].pattern)
                    /\ AnswersIn(bengali_patterns[i].answers, full_context) /= {}}
    IN  IF hits = {} THEN <<>>
        ELSE LET answers == bengali_patterns[SetMin(hits)].answers
             IN  <<answers[SetMin(AnswersIn(answers, full_context))]>>

\* The loop over the sentences with matches >= max_matches where the code
\* has matches > max_matches.
RECURSIVE BestSentenceFromLast(_, _, _, _, _)
BestSentenceFromLast(sentences, i, query_words, best, max_matches) ==
    IF i > Len(sentences) THEN best
    ELSE LET sentence_lower == Lower(sentences[i])
             matches == Cardinality({k \in 1..Len(query_words) :
                                       Contains(sentence_lower, query_words[k])})
         IN  IF matches >= max_matches /\ matches > 0
             THEN BestSentenceFromLast(sentences, i + 1, query_words,
                                       Strip(sentences[i]), matches)
             ELSE BestSentenceFromLast(sentences, i + 1, query_words, best,
                                       max_matches)

\* The sentence loop from sentence i on: best is best_sentence so far.
RECURSIVE BestSentenceFrom(_, _, _, _, _)
BestSentenceFrom(sentences, i, query_words, best, max_matches) ==
    IF i > Len(sentences) THEN best
    ELSE LET sentence_lower == Lower(sentences[i])
             matches == Cardinality({k \in 1..Len(query_words) :
                                       Contains(sentence_lower, query_words[k])})
         IN  IF matches > max_matches
             THEN BestSentenceFrom(sentences, i + 1, query_words,
                                   Strip(sentences[i]), matches)
             ELSE BestSentenceFrom(sentences, i + 1, query_words, best,
                                   max_matches)

\* The sentences of the context: split at the danda, or at the period when
\* there is no danda.
Sentences(full_context) ==
    LET by_danda == SplitOnChar(full_context, "danda")
    IN  IF Len(by_danda) = 1 THEN SplitOnChar(full_context, ".")
        ELSE by_danda

\* The words of the best sentence that the word loop returns, as indexes.
KeyTerms(words) ==
    {k \in 1..Len(words) :
        /\ \/ IsUpper(words[k][1])
           \/ \E j \in 1..Len(words[k]) : InBengaliBlock(words[k][j])
        /\ Len(words[k]) > 2}

\* A last return that marks every context as cut.
TruncatedContextMarked(full_context) ==
    FirstChars(full_context, AnswerLimit) \o <<".", ".", ".">>

\* The last return: the context, cut to AnswerLimit characters.
TruncatedContext(full_context) ==
    IF Len(full_context) > AnswerLimit
    THEN FirstChars(full_context, AnswerLimit) \o <<".", ".", ".">>
    ELSE full_context

\* An extraction that looks for a key term before it looks at the table.
extract_answer_key_term_first(q, contexts, lang) ==
    LET full_context == JoinWith(<<" ">>, contexts)
        by_pattern == IF lang = "bengali" THEN PatternAnswer(q, full_context)
                      ELSE <<>>
        best_sentence == BestSentenceFrom(Sentences(full_context), 1,
                                          Words(Lower(q)), <<>>, 0)
        words == Words(best_sentence)
    IN  IF best_sentence /= <<>> /\ KeyTerms(words) /= {}
        THEN words[SetMin(KeyTerms(words))]
        ELSE IF by_pattern /= <<>> THEN by_pattern[1]
        ELSE TruncatedContext(full_context)

extract_answer_from_context(q, contexts, lang) ==
    LET full_context == JoinWith(<<" ">>, contexts)
        by_pattern == IF lang = "bengali" THEN PatternAnswer(q, full_context)
                      ELSE <<>>
        best_sentence == BestSentenceFrom(Sentences(full_context), 1,
                                          Words(Lower(q)), <<>>, 0)
        words == Words(best_sentence)
    IN  IF by_pattern /= <<>> THEN by_pattern[1]
        ELSE IF best_sentence /= <<>> /\ KeyTerms(words) /= {}
             THEN words[SetMin(KeyTerms(words))]
        ELSE TruncatedContext(full_context)

RECURSIVE SumDistances(_)
SumDistances(docs) ==
    IF docs = <<>> THEN 0 ELSE Head(docs).distance + SumDistances(Tail(docs))

\* max(0.0, 1.0 - avg_distance)
Confidence(docs) == Max(0, Unit - (SumDistances(docs) \div Len(docs)))

\* A no-context return that answers with the 'uncertain' template.
NoContextReturnUncertain(lang) ==
    [status |-> "returned",
     keys |-> {"answer", "sources", "language", "confidence"},
     answer |-> response_templates[lang].uncertain, sources |-> <<>>,
     language |-> lang, confidence |-> 0, conversation_context |-> <<>>]

\* The dict returned when the search found nothing.
NoContextReturn(lang) ==
    [status |-> "returned",
     keys |-> {"answer", "sources", "language", "confidence"},
     answer |-> response_templates[lang].no_context, sources |-> <<>>,
     language |-> lang, confidence |-> 0, conversation_context |-> <<>>]

\* The response before any call.
NoResponse ==
    [status |-> "none", keys |-> {}, answer |-> <<>>, sources |-> <<>>,
     language |-> None, confidence |-> 0, conversation_context |-> <<>>]

\* generate_response(q) when the search ends as o tells: the new values of
\* conversation_history and clock, and the outcome of the call, which is the
\* returned dict (keys are its keys) or the exception that escaped.
generate_response(history, now, q, o) ==
    LET with_query == add_to_conversation(history, q, "user", now + 1)
        lang == detect_language(q)
        found == search_similar(o)
        relevant_docs == found.docs
    IN  IF found.raised
        THEN [history |-> with_query, now |-> now + 1,
              response |-> [NoResponse EXCEPT !.status = "raised"]]
        ELSE IF relevant_docs = <<>>
        THEN [history |-> add_to_conversation(with_query,
                                              NoContextReturn(lang).answer,
                                              "assistant", now + 2),
              now |-> now + 2,
              response |-> NoContextReturn(lang)]
        ELSE LET contexts == [i \in 1..Len(relevant_docs) |->
                                relevant_docs[i].content]
                 answer == extract_answer_from_context(q, contexts, lang)
             IN  [history |-> add_to_conversation(with_query, answer,
                                                  "assistant", now + 2),
                  now |-> now + 2,
                  response |->
                    [status |-> "returned",
                     keys |-> {"answer", "sources", "language", "confidence",
                               "conversation_context"},
                     answer |-> answer,
                     sources |->
                       [i \in 1..Len(relevant_docs) |->
                          [content |->
                             FirstChars(relevant_docs[i].content, SnippetLimit)
                               \o <<".", ".", ".">>,
                           distance |-> relevant_docs[i].distance]],
                     language |-> lang,
                     confidence |-> Confidence(relevant_docs),
                     conversation_context |->
                       get_conversation_context(with_query)]]

(***************************************************************************)
(* The inputs of the response assembler.                                   *)
(***************************************************************************)
\* The chunks of the collection: content and metadata.
StoredChunks ==
    << [content |->
        <<"bn_sha", "bn_sign_u", "bn_ma", "bn_virama", "bn_bha",
          "bn_sign_u", "bn_na", "bn_sign_aa", "bn_tha", " ", "bn_sa",
          "bn_sign_u", "bn_pa", "bn_sign_u", "bn_ra", "bn_sign_u", "bn_ssa",
          "danda">>,
        metadata |-> [length |-> 18, chunk_id |-> 0]],
       [content |->
        <<"H", "e", " ", "i", "s", " ", "A", "n", "u", "p", "a", "m", ".",
          " ", "o", "k">>,
        metadata |-> [length |-> 16, chunk_id |-> 1]],
       [content |->
        <<"n", "o">>,
        metadata |-> [length |-> 2, chunk_id |-> 2]] >>

\* The distances a collection reports: -0.5 (an inner-product space), 0.1,
\* 0.5 and 1.5.
Distances == {-(Unit \div 2), Unit \div 10, Unit \div 2, 3 * (Unit \div 2)}

\* The rows a query of the collection returns: at most NResults different
\* chunks, nearest first.
QueryRows ==
    {rows \in UNION {[1..n -> [chunk : 1..Len(StoredChunks), distance : Distances]] :
                       n \in 0..NResults} :
        /\ \A i, j \in 1..Len(rows) : i < j => rows[i].chunk /= rows[j].chunk
        /\ \A i, j \in 1..Len(rows) : i < j => rows[i].distance <= rows[j].distance}

RowsOutcome(rows) ==
    [kind |-> "ok",
     results |-> [i \in 1..Len(rows) |->
                    [content |-> StoredChunks[rows[i].chunk].content,
                     distance |-> rows[i].distance,
                     metadata |-> StoredChunks[rows[i].chunk].metadata]]]

\* How a search ends: rows, or a failure of the embedding model or of the
\* collection.
SearchOutcomes ==
    {RowsOutcome(rows) : rows \in QueryRows}
        \cup {[kind |-> "embed_error", results |-> <<>>],
              [kind |-> "query_error", results |-> <<>>]}

BengaliQuestion ==
    <<"bn_sa", "bn_sign_u", "bn_pa", "bn_sign_u", "bn_ra", "bn_sign_u",
          "bn_ssa", " ", "bn_ka", "bn_sign_aa", "bn_ka", "bn_sign_e">>

EnglishQuestion ==
    <<"W", "h", "o", " ", "i", "s", " ", "h", "e", "?">>

\* The questions asked: a Bengali one, an English one, one without letters.
Questions == {BengaliQuestion, EnglishQuestion, <<"1", "5", "?">>}

(***************************************************************************)
(* The response assembler as a state machine.                              *)
(***************************************************************************)
\* add_to_conversation(content, msg_type), called from outside.
AddToConversation(content, msg_type) ==
    /\ clock < MaxClock
    /\ conversation_history' =
         add_to_conversation(conversation_history, content, msg_type, clock + 1)
    /\ clock' = clock + 1
    /\ UNCHANGED <<question, search_outcome, response>>

\* generate_response(q), the search ending as o tells.
GenerateResponse(q, o) ==
    LET call == generate_response(conversation_history, clock, q, o)
    IN  /\ call.now <= MaxClock
        /\ conversation_history' = call.history
        /\ clock' = call.now
        /\ response' = call.response
        /\ question' = q
        /\ search_outcome' = o

\* clear_conversation()
ClearConversation ==
    /\ conversation_history' = <<>>
    /\ UNCHANGED <<clock, question, search_outcome, response>>

\* One RAGSystem serving a conversation: the questions and the search
\* outcomes are few, the conversation is long.
ServedQuestions == {EnglishQuestion}

ServedOutcomes ==
    {[kind |-> "query_error", results |-> <<>>],
     RowsOutcome(<<[chunk |-> 2, distance |-> Unit \div 10]>>)}

\* What a caller pushes directly: a note of the user.
PushedContents == {<<"o", "k">>}

PushedTypes == {"user"}

Init ==
    /\ pc = "serve"
    /\ RagIdle
    /\ SplitIdle
    /\ RetrieverIdle
    /\ DetectIdle
    /\ ApiIdle
    /\ KbIdle

Next ==
    /\ pc = "serve"
    /\ UNCHANGED <<pc, splitVars, retrieverVars, detectVars, apiVars, kbVars>>
    /\ \/ \E content \in PushedContents, msg_type \in PushedTypes :
            AddToConversation(content, msg_type)
       \/ \E q \in ServedQuestions, o \in ServedOutcomes : GenerateResponse(q, o)
       \/ ClearConversation

Spec == Init /\ [][Next]_vars

\* One generate_response call on a new RAGSystem, over every question and
\* every search outcome.
InitQuery ==
    /\ pc = "call"
    /\ RagIdle
    /\ SplitIdle
    /\ RetrieverIdle
    /\ DetectIdle
    /\ ApiIdle
    /\ KbIdle

CallGenerateResponse ==
    /\ pc = "call"
    /\ pc' = "done"
    /\ \E q \in Questions, o \in SearchOutcomes : GenerateResponse(q, o)
    /\ UNCHANGED <<splitVars, retrieverVars, detectVars, apiVars, kbVars>>

NextQuery == CallGenerateResponse

SpecQuery == InitQuery /\ [][NextQuery]_vars

\* C5: the conversation never holds more than 10 messages between
\* operations, and an operation that pushes keeps, of the messages it found,
\* the newest ones that fit, in their order, followed by what it pushed: the
\* messages evicted are the oldest.
HistoryBoundedOldestEvicted ==
    [][/\ Len(conversation_history) <= 10
       /\ Len(conversation_history') <= 10
       /\ clock' > clock =>
            LET pushed == clock' - clock
                kept == Len(conversation_history') - pushed
                had == Len(conversation_history)
            IN  /\ kept = Min(had, 10 - pushed)
                /\ SubSeq(conversation_history', 1, kept)
                     = SubSeq(conversation_history, had - kept + 1, had)
                /\ \A i \in 1..pushed :
                     conversation_history'[kept + i].timestamp = clock + i]_vars

\* C5 witness: a full conversation that starts with the apology of a
\* generate_response call whose question has been evicted.
HistoryEvictionWitness ==
    /\ Len(conversation_history) = 10
    /\ conversation_history[1].type = "assistant"
    /\ conversation_history[1].content = response_templates.english.no_context
    /\ conversation_history[1].timestamp = 2

\* The mean distance of the rows of the last search.
MeanDistance ==
    SumDistances(search_outcome.results) \div Len(search_outcome.results)

\* C6 as claimed: with a non-empty retrieval result the confidence is
\* 1 - mean distance clamped to [0, 1] at both ends.
ConfidenceClampedAtBothEnds ==
    (pc = "done" /\ search_outcome.kind = "ok" /\ search_outcome.results /= <<>>)
        => response.confidence = Min(Max(Unit - MeanDistance, 0), Unit)

\* C9: when the search returns no rows the call returns the no-information
\* template of the question's language, confidence 0.0 and no sources, and
\* the conversation holds the question and then that template.
NoResultsReturnsTemplate ==
    (pc = "done" /\ search_outcome.kind = "ok" /\ search_outcome.results = <<>>)
        => LET lang == IF question = BengaliQuestion THEN "bengali" ELSE "english"
           IN  /\ response.status = "returned"
               /\ response.language = lang
               /\ response.answer = response_templates[lang].no_context
               /\ response.confidence = 0
               /\ response.sources = <<>>
               /\ conversation_history =
                    <<[content |-> question, timestamp |-> 1, type |-> "user"],
                      [content |-> response_templates[lang].no_context,
                       timestamp |-> 2, type |-> "assistant"]>>

\* C9 witness: the Bengali question, asked of a collection that returns no
\* rows, has been answered.
NoResultsWitness ==
    /\ pc = "done"
    /\ search_outcome = [kind |-> "ok", results |-> <<>>]
    /\ question = BengaliQuestion
    /\ response.answer = response_templates.bengali.no_context

\* C10: when the embedding model or the collection fails during the search,
\* the call raises nothing and returns a dict with a non-empty answer and
\* confidence 0.0.
SearchFailureIsAnswered ==
    (pc = "done" /\ search_outcome.kind \in {"embed_error", "query_error"})
        => /\ response.status = "returned"
           /\ {"answer", "sources", "language", "confidence"} \subseteq response.keys
           /\ response.answer /= <<>>
           /\ response.confidence = 0

\* C10 witness: a call whose embedding failed has returned.
SearchFailureWitness ==
    /\ pc = "done"
    /\ search_outcome.kind = "embed_error"
    /\ response.status = "returned"

(***************************************************************************)
(* The answers to the predefined test questions and to questions like them.*)
(***************************************************************************)
\* test_cases of GET /test; run_test_cases of main.py holds the same
\* questions and expected answers in two lists.
TestCases ==
    << [question |->
        <<"bn_a", "bn_na", "bn_sign_u", "bn_pa", "bn_ma", "bn_sign_e",
          "bn_ra", " ", "bn_bha", "bn_sign_aa", "bn_ssa", "bn_sign_aa",
          "bn_ya", "bn_nukta", " ", "bn_sa", "bn_sign_u", "bn_pa",
          "bn_sign_u", "bn_ra", "bn_sign_u", "bn_ssa", " ", "bn_ka",
          "bn_sign_aa", "bn_ka", "bn_sign_e", " ", "bn_ba", "bn_la",
          "bn_sign_aa", " ", "bn_ha", "bn_ya", "bn_nukta", "bn_sign_e",
          "bn_cha", "bn_sign_e", "?">>,
        expected |->
        <<"bn_sha", "bn_sign_u", "bn_ma", "bn_virama", "bn_bha",
          "bn_sign_u", "bn_na", "bn_sign_aa", "bn_tha">>],
       [question |->
        <<"bn_ka", "bn_sign_aa", "bn_ka", "bn_sign_e", " ", "bn_a", "bn_na",
          "bn_sign_u", "bn_pa", "bn_ma", "bn_sign_e", "bn_ra", " ",
          "bn_bha", "bn_sign_aa", "bn_ga", "bn_virama", "bn_ya", " ",
          "bn_da", "bn_sign_e", "bn_ba", "bn_ta", "bn_sign_aa", " ",
          "bn_ba", "bn_la", "bn_sign_e", " ", "bn_u", "bn_la", "bn_virama",
          "bn_la", "bn_sign_e", "bn_kha", " ", "bn_ka", "bn_ra",
          "bn_sign_aa", " ", "bn_ha", "bn_ya", "bn_nukta", "bn_sign_e",
          "bn_cha", "bn_sign_e", "?">>,
        expected |->
        <<"bn_ma", "bn_sign_aa", "bn_ma", "bn_sign_aa", "bn_ka",
          "bn_sign_e">>],
       [question |->
        <<"bn_ba", "bn_sign_i", "bn_ya", "bn_nukta", "bn_sign_e", "bn_ra",
          " ", "bn_sa", "bn_ma", "bn_ya", "bn_nukta", " ", "bn_ka", "bn_la",
          "bn_virama", "bn_ya", "bn_sign_aa", "bn_nna", "bn_sign_ii",
          "bn_ra", " ", "bn_pa", "bn_virama", "bn_ra", "bn_ka",
          "bn_sign_vocalic_r", "bn_ta", " ", "bn_ba", "bn_ya", "bn_nukta",
          "bn_sa", " ", "bn_ka", "bn_ta", " ", "bn_cha", "bn_sign_i",
          "bn_la", "?">>,
        expected |->
        <<"bn_1", "bn_5", " ", "bn_ba", "bn_cha", "bn_ra">>] >>

\* Chunks that hold the expected answers, and one longer than AnswerLimit
\* in which no word is a name: 'no ooo...o'.
TestChunks ==
    << [content |->
        <<"bn_a", "bn_na", "bn_sign_u", "bn_pa", "bn_ma", "bn_sign_e",
          "bn_ra", " ", "bn_ma", "bn_sign_aa", "bn_ma", "bn_sign_aa",
          "bn_ka", "bn_sign_e", " ", "bn_bha", "bn_sign_aa", "bn_ga",
          "bn_virama", "bn_ya", " ", "bn_da", "bn_sign_e", "bn_ba", "bn_ta",
          "bn_sign_aa", " ", "bn_ba", "bn_la", "bn_sign_aa", " ", "bn_ha",
          "bn_ya", "bn_nukta", "bn_sign_e", "bn_cha", "bn_sign_e", "danda">>,
        metadata |-> [length |-> 38, chunk_id |-> 3]],
       [content |->
        <<"bn_ka", "bn_la", "bn_virama", "bn_ya", "bn_sign_aa", "bn_nna",
          "bn_sign_ii", "bn_ra", " ", "bn_pa", "bn_virama", "bn_ra",
          "bn_ka", "bn_sign_vocalic_r", "bn_ta", " ", "bn_ba", "bn_ya",
          "bn_nukta", "bn_sa", " ", "bn_1", "bn_5", " ", "bn_ba", "bn_cha",
          "bn_ra", "danda">>,
        metadata |-> [length |-> 28, chunk_id |-> 4]],
       [content |-> <<"n", "o", " ">> \o Repeat("o", 207),
        metadata |-> [length |-> 210, chunk_id |-> 5]] >>

AnswerChunks == StoredChunks \o TestChunks

\* A question in English that quotes the second fragment of the table.
QuotingQuestion ==
    <<"P", "l", "e", "a", "s", "e", " ", "t", "e", "l", "l", " ", "m",
          "e", " ", "i", "n", " ", "E", "n", "g", "l", "i", "s", "h", " ",
          "w", "h", "o", " ", "i", "s", " ", "c", "a", "l", "l", "e", "d",
          " ", "bn_bha", "bn_sign_aa", "bn_ga", "bn_virama", "bn_ya", " ",
          "bn_da", "bn_sign_e", "bn_ba", "bn_ta", "bn_sign_aa">>

\* A question that holds the first two fragments of the table.
TwoFragmentQuestion ==
    <<"bn_sa", "bn_sign_u", "bn_pa", "bn_sign_u", "bn_ra", "bn_sign_u",
          "bn_ssa", " ", "bn_ka", "bn_sign_aa", "bn_ka", "bn_sign_e", " ",
          "bn_bha", "bn_sign_aa", "bn_ga", "bn_virama", "bn_ya", " ",
          "bn_da", "bn_sign_e", "bn_ba", "bn_ta", "bn_sign_aa">>

AnswerQuestions ==
    {TestCases[i].question : i \in 1..Len(TestCases)}
        \cup {BengaliQuestion, EnglishQuestion, QuotingQuestion,
              TwoFragmentQuestion, <<"n", "o">>}

\* The rows of a search: at most NResults different chunks, all at one
\* tenth.
AnswerOutcomes ==
    {[kind |-> "ok",
      results |-> [i \in 1..Len(row) |->
                     [content |-> AnswerChunks[row[i]].content,
                      distance |-> Unit \div 10,
                      metadata |-> AnswerChunks[row[i]].metadata]]] :
       row \in {r \in UNION {[1..n -> 1..Len(AnswerChunks)] : n \in 0..NResults} :
                  \A i, j \in 1..Len(r) : i < j => r[i] /= r[j]}}

\* One generate_response call on a new RAGSystem, over the questions above
\* and every choice of retrieved chunks.
InitAnswer ==
    /\ pc = "call"
    /\ RagIdle
    /\ SplitIdle
    /\ RetrieverIdle
    /\ DetectIdle
    /\ ApiIdle
    /\ KbIdle

CallForAnswer ==
    /\ pc = "call"
    /\ pc' = "done"
    /\ \E q \in AnswerQuestions, o \in AnswerOutcomes : GenerateResponse(q, o)
    /\ UNCHANGED <<splitVars, retrieverVars, detectVars, apiVars, kbVars>>

NextAnswer == CallForAnswer

SpecAnswer == InitAnswer /\ [][NextAnswer]_vars

\* full_context of the last call: the retrieved contents joined by a space.
RetrievedContext ==
    JoinWith(<<" ">>, [i \in 1..Len(search_outcome.results) |->
                         search_outcome.results[i].content])

\* The steps of the cascade on a call with question q, detected language
\* lang and context ctx, each <<answer>> when the step produces one and <<>>
\* when it does not.
PatternStep(q, lang, ctx) ==
    IF lang = "bengali" THEN PatternAnswer(q, ctx) ELSE <<>>

BestSentence(q, ctx) ==
    BestSentenceFrom(Sentences(ctx), 1, Words(Lower(q)), <<>>, 0)

KeyTermStep(q, ctx) ==
    LET words == Words(BestSentence(q, ctx))
        named == {k \in 1..Len(words) :
                    /\ Len(words[k]) > 2
                    /\ \/ IsUpper(words[k][1])
                       \/ \E j \in 1..Len(words[k]) : InBengaliBlock(words[k][j])}
    IN  IF named = {} THEN <<>>
        ELSE <<words[CHOOSE k \in named : \A l \in named : k <= l]>>

TruncationStep(ctx) ==
    IF Len(ctx) <= 200 THEN ctx
    ELSE SubSeq(ctx, 1, 200) \o <<".", ".", ".">>

\* C12: the answer extracted from a non-empty retrieval is that of the
\* first step, in the order pattern table, key term of the best sentence,
\* truncated context, that produces one; the truncated context carries the
\* ellipsis only when it was cut at 200 characters.
CascadeInOrder ==
    (pc = "done" /\ search_outcome.results /= <<>>)
        => LET ctx == RetrievedContext
               by_pattern == PatternStep(question, response.language, ctx)
               by_key_term == KeyTermStep(question, ctx)
           IN  response.answer =
                 IF by_pattern /= <<>> THEN by_pattern[1]
                 ELSE IF by_key_term /= <<>> THEN by_key_term[1]
                 ELSE TruncationStep(ctx)

\* C12 witness: no pattern and no key term, and a context of more than 200
\* characters: the answer is its first 200 characters and the ellipsis.
CascadeLastStepWitness ==
    /\ pc = "done"
    /\ search_outcome.results /= <<>>
    /\ Len(response.answer) = 203
    /\ LET ctx == RetrievedContext
       IN  /\ Len(ctx) > 200
           /\ PatternStep(question, response.language, ctx) = <<>>
           /\ BestSentence(question, ctx) /= <<>>
           /\ KeyTermStep(question, ctx) = <<>>

\* C13 as claimed: a predefined test question whose retrieved context holds
\* the expected answer is answered with a string that holds it (the test
\* is reported as passed).
PredefinedTestsPass ==
    \A i \in 1..Len(TestCases) :
        (/\ pc = "done"
         /\ question = TestCases[i].question
         /\ Contains(RetrievedContext, TestCases[i].expected))
            => Contains(Lower(response.answer), Lower(TestCases[i].expected))

\* The candidates of the table that apply to a call: <<i, j>> when fragment
\* i is in the question q and its candidate j is in the context ctx.
FragmentAnswers(q, ctx) ==
    {h \in UNION {{<<i, j>> : j \in 1..Len(bengali_patterns[i].answers)} :
                    i \in 1..Len(bengali_patterns)} :
        /\ Contains(q, bengali_patterns[h[1]].pattern)
        /\ Contains(ctx, bengali_patterns[h[1]].answers[h[2]])}

FirstInTableOrder(hits) ==
    CHOOSE h \in hits :
        \A g \in hits : h[1] < g[1] \/ (h[1] = g[1] /\ h[2] <= g[2])

MaxApiClock == 8

\* session_id of a QueryRequest.
SessionIds == {"s1", "s2"}

\* The question each session asks: a turn tells the session it came from.
SessionQuestion == [s1 |-> EnglishQuestion, s2 |-> BengaliQuestion]

\* A question that is blank after strip().
BlankQuestion == <<" ">>

\* What an endpoint answers: the status code, the QueryResponse of /query
\* (when there is one) and the test_results and summary of /test.
ApiResponse(status_code, query_response, test_results) ==
    [status_code |-> status_code,
     query_response |-> query_response,
     test_results |-> test_results,
     summary |->
       [total |-> Len(test_results),
        passed |-> Cardinality({i \in 1..Len(test_results) :
                                  test_results[i].correct}),
        failed |-> Cardinality({i \in 1..Len(test_results) :
                                  ~test_results[i].correct})]]

\* POST /query with the body {question: q, session_id: sid}, the search
\* ending as o tells.
QueryEndpoint(sid, q, o) ==
    /\ request' = [endpoint |-> "query", session_id |-> sid, question |-> q]
    /\ IF Strip(q) = <<>>
       THEN /\ api_response' = ApiResponse(400, <<>>, <<>>)
            /\ UNCHANGED ragVars
       ELSE /\ GenerateResponse(q, o)
            /\ api_response' =
                 IF response'.status = "raised"
                 THEN ApiResponse(500, <<>>, <<>>)
                 ELSE ApiResponse(200,
                        <<[answer |-> response'.answer,
                           language |-> response'.language,
                           confidence |-> response'.confidence,
                           sources |-> response'.sources,
                           conversation_context |->
                             response'.conversation_context]>>,
                        <<>>)

\* POST /clear-conversation
ClearEndpoint ==
    /\ request' = [endpoint |-> "clear-conversation", session_id |-> None,
                   question |-> <<>>]
    /\ ClearConversation
    /\ api_response' = ApiResponse(200, <<>>, <<>>)

\* GET /test, the search of the i-th question ending as outs[i] tells: the
\* questions are asked in order, and an exception ends the loop.
TestEndpoint(outs) ==
    \E r1 \in {generate_response(conversation_history, clock,
                                  TestCases[1].question, outs[1])} :
    \E r2 \in {IF r1.response.status = "raised" THEN r1
                ELSE generate_response(r1.history, r1.now,
                                       TestCases[2].question, outs[2])} :
    \E r3 \in {IF r2.response.status = "raised" THEN r2
                ELSE generate_response(r2.history, r2.now,
                                       TestCases[3].question, outs[3])} :
        LET runs == <<r1, r2, r3>>
            asked == IF r1.response.status = "raised" THEN 1
                     ELSE IF r2.response.status = "raised" THEN 2 ELSE 3
        IN  /\ r3.now <= MaxApiClock
            /\ request' = [endpoint |-> "test", session_id |-> None,
                           question |-> <<>>]
            /\ conversation_history' = r3.history
            /\ clock' = r3.now
            /\ response' = r3.response
            /\ question' = TestCases[asked].question
            /\ search_outcome' = outs[asked]
            /\ api_response' =
                 IF r3.response.status = "raised"
                 THEN ApiResponse(500, <<>>, <<>>)
                 ELSE ApiResponse(200, <<>>,
                        [i \in 1..Len(TestCases) |->
                           [question |-> TestCases[i].question,
                            expected |-> TestCases[i].expected,
                            got |-> runs[i].response.answer,
                            correct |->
                              Contains(Lower(runs[i].response.answer),
                                       Lower(TestCases[i].expected)),
                            confidence |-> runs[i].response.confidence,
                            language |-> runs[i].response.language]])

\* The searches of the service: a failure, or the second chunk at one tenth;
\* those of /test: nothing, or the chunk that holds the expected answer.
ApiOutcomes == ServedOutcomes

TestOutcome(i) ==
    {o \in AnswerOutcomes :
        \/ o.results = <<>>
        \/ /\ Len(o.results) = 1
           /\ Contains(o.results[1].content, TestCases[i].expected)}

TestOutcomes ==
    {<<o1, o2, o3>> : o1 \in TestOutcome(1), o2 \in TestOutcome(2),
                      o3 \in TestOutcome(3)}

\* The service after a successful startup_event.
InitApi ==
    /\ pc = "listen"
    /\ RagIdle
    /\ SplitIdle
    /\ RetrieverIdle
    /\ DetectIdle
    /\ ApiIdle
    /\ KbOf("BengaliRAGApp")

QueryRequestServed ==
    /\ pc = "listen"
    /\ \E sid \in SessionIds, o \in ApiOutcomes :
         \E q \in {SessionQuestion[sid], BlankQuestion} :
            /\ clock + 2 <= MaxApiClock
            /\ QueryEndpoint(sid, q, o)
    /\ UNCHANGED <<pc, splitVars, retrieverVars, detectVars, kbVars>>

ClearRequestServed ==
    /\ pc = "listen"
    /\ ClearEndpoint
    /\ UNCHANGED <<pc, splitVars, retrieverVars, detectVars, kbVars>>

TestRequestServed ==
    /\ pc = "listen"
    /\ \E outs \in TestOutcomes : TestEndpoint(outs)
    /\ UNCHANGED <<pc, splitVars, retrieverVars, detectVars, kbVars>>

NextApi == QueryRequestServed \/ ClearRequestServed \/ TestRequestServed

SpecApi == InitApi /\ [][NextApi]_vars

\* C11 as claimed: the conversation_context returned to a /query of one
\* session never holds a question of the other session.
SessionsHaveOwnWindow ==
    (request.endpoint = "query" /\ api_response.status_code = 200)
        => \A other \in SessionIds \ {request.session_id} :
              ~Contains(api_response.query_response[1].conversation_context,
                        SessionQuestion[other])

(***************************************************************************)
(* The recent-conversation view.                                           *)
(***************************************************************************)
\* The lines of a view: its text between the line ends.
ViewLines(view) == SplitOnChar(view, "\n")

\* The view shows exactly the messages shown, oldest first, each on a line
\* of its own that starts with the label of its type.
ViewShows(view, shown) ==
    IF shown = <<>> THEN view = <<>>
    ELSE LET lines == ViewLines(view)
         IN  /\ Len(lines) = Len(shown) + 3
             /\ lines[1] = <<>>
             /\ lines[2] = RecentHeader
             /\ lines[Len(lines)] = <<>>
             /\ \A i \in 1..Len(shown) :
                  lines[i + 2] = RoleLabel(shown[i].type) \o <<":", " ">>
                                   \o shown[i].content

\* The last min(k, n) of the n messages of history, oldest first.
LastTurns(history, k) ==
    LET n == Len(history)
        m == Min(k, n)
    IN  [i \in 1..m |-> history[n - m + i]]

\* The last call of generate_response returned a view and nothing was
\* pushed or cleared since.
ViewJustReturned ==
    /\ conversation_history # <<>>
    /\ conversation_history[Len(conversation_history)].type = "assistant"
    /\ conversation_history[Len(conversation_history)].timestamp = clock
    /\ "conversation_context" \in response.keys

\* C21: get_conversation_context shows exactly the last min(4, n) messages
\* of a history of n messages, the oldest of them first, each labelled
\* with its own role, and nothing for an empty history; the view that
\* generate_response returns is the one of the history before the answer
\* was pushed.
RecentContextIsLastFour ==
    /\ ViewShows(get_conversation_context(conversation_history),
                 LastTurns(conversation_history, 4))
    /\ ViewJustReturned =>
         \* the messages before the answer that are still in the window
         LET n == Len(conversation_history)
             m == Min(4, n - 1)
         IN  ViewShows(response.conversation_context,
                       [i \in 1..m |-> conversation_history[n - 1 - m + i]])

\* C21 witness: more than four messages, the last four of both roles and
\* unlike the first four, and a call has just returned its view.
RecentContextWitness ==
    /\ Len(conversation_history) > 4
    /\ ViewJustReturned
    /\ \E i \in 1..4 :
         conversation_history[i].content
           # LastTurns(conversation_history, 4)[i].content
    /\ {LastTurns(conversation_history, 4)[i].type : i \in 1..4}
         = {"user", "assistant"}

(***************************************************************************)
(* DocumentProcessor (document_processor.py).                              *)
(***************************************************************************)
\* The characters of s at the indices lo..hi where mask holds, in order.
RECURSIVE PickFrom(_, _, _, _)
PickFrom(s, mask, lo, hi) ==
    IF lo > hi THEN <<>>
    ELSE IF lo = hi THEN (IF mask[lo] THEN <<s[lo]>> ELSE <<>>)
    ELSE LET mid == (lo + hi) \div 2
         IN  PickFrom(s, mask, lo, mid) \o PickFrom(s, mask, mid + 1, hi)

Pick(s, mask) == PickFrom(s, mask, 1, Len(s))

\* The index at which the run of characters of class cs that holds s[i]
\* starts.
RunStart(s, cs, i) ==
    SetMax({j \in 1..i : j = 1 \/ s[j - 1] \notin cs})

\* s.replace(c + c, c) for a character c: of every run of c, the second of
\* each pair, counted from the start of the run, goes.
ReplaceDoubled(s, c) ==
    Pick(s, [i \in 1..Len(s) |->
               s[i] # c \/ (i - RunStart(s, {c}, i)) % 2 = 0])

\* \w of the pattern: alphanumeric characters and the underscore.
DecimalDigits == {"0", "1", "2", "3", "4", "5", "6", "7", "8", "9"}

IsWordChar(c) == IsAlpha(c) \/ c \in DecimalDigits \/ c \in {"bn_1", "bn_5", "_"}

\* The characters the second substitution of clean_text keeps.
KeptPunctuation == {"danda", ",", ";", ":", "!", "?", ".", "-"}

IsKept(c) ==
    IsWordChar(c) \/ IsSpace(c) \/ InBengaliBlock(c) \/ c \in KeptPunctuation

\* DocumentProcessor.clean_text
clean_text(txt) ==
    LET spaced == Pick([i \in 1..Len(txt) |->
                          IF IsSpace(txt[i]) THEN " " ELSE txt[i]],
                       [i \in 1..Len(txt) |->
                          ~IsSpace(txt[i]) \/ i = 1 \/ ~IsSpace(txt[i - 1])])
        kept == Pick(spaced, [i \in 1..Len(spaced) |-> IsKept(spaced[i])])
    IN  Strip(ReplaceDoubled(ReplaceDoubled(kept, "danda"), " "))

\* The sentence ends of chunk_text.
DocSentenceEnders == {"danda", ".", "!", "?"}

\* re.split(r'[danda.!?]+', s) without the empty strings, which the loop of
\* chunk_text skips: the maximal runs of other characters.
DocSentences(s) ==
    LET starts == {i \in 1..Len(s) :
                     /\ s[i] \notin DocSentenceEnders
                     /\ (i = 1 \/ s[i - 1] \in DocSentenceEnders)}
        ends == {i \in 1..Len(s) :
                   /\ s[i] \notin DocSentenceEnders
                   /\ (i = Len(s) \/ s[i + 1] \in DocSentenceEnders)}
    IN  [k \in 1..Cardinality(starts) |->
           SubSeq(s, Nth(starts, k), Nth(ends, k))]

\* A chunk record of chunk_text.
ChunkRecord(current_chunk, done) ==
    [content |-> Strip(current_chunk), length |-> Len(current_chunk),
     id |-> Len(done)]

\* The loop of chunk_text from the i-th sentence on, and the last chunk.
RECURSIVE ChunkSentences(_, _, _, _, _, _)
ChunkSentences(sentences, i, done, current_chunk, size, overlap) ==
    IF i > Len(sentences)
    THEN IF Strip(current_chunk) # <<>>
         THEN Append(done, ChunkRecord(current_chunk, done))
         ELSE done
    ELSE LET sentence == Strip(sentences[i])
         IN  IF sentence = <<>>
             THEN ChunkSentences(sentences, i + 1, done, current_chunk, size,
                                 overlap)
             ELSE IF Len(current_chunk) + Len(sentence) > size
                     /\ current_chunk # <<>>
             THEN LET words == Words(current_chunk)
                      overlap_text ==
                          IF Len(words) > overlap
                          THEN JoinWith(<<" ">>, LastK(words, overlap))
                          ELSE current_chunk
                  IN  ChunkSentences(sentences, i + 1,
                        Append(done, ChunkRecord(current_chunk, done)),
                        overlap_text \o <<" ">> \o sentence, size, overlap)
             ELSE ChunkSentences(sentences, i + 1, done,
                                 current_chunk \o <<" ">> \o sentence, size,
                                 overlap)

\* DocumentProcessor.chunk_text
chunk_text(txt, size, overlap) ==
    ChunkSentences(DocSentences(clean_text(txt)), 1, <<>>, <<>>, size, overlap)

\* One call of chunk_text, over every short text and small parameters.
MaxDocLen == 4
MaxDocChunkSize == 3
MaxDocOverlap == 2

DocAlphabet == {"a", " ", ".", "danda", "("}

InitChunkText ==
    /\ text \in Texts(DocAlphabet, MaxDocLen)
    /\ chunk_size \in 1..MaxDocChunkSize
    /\ chunk_overlap \in 0..MaxDocOverlap
    /\ chunks = <<>>
    /\ pc = "call"
    /\ RetrieverIdle
    /\ DetectIdle
    /\ RagIdle
    /\ ApiIdle
    /\ KbIdle

CallChunkText ==
    /\ pc = "call"
    /\ pc' = "done"
    /\ chunks' = chunk_text(text, chunk_size, chunk_overlap)
    /\ UNCHANGED <<text, chunk_size, chunk_overlap, retrieverVars,
                   detectVars, ragVars, apiVars, kbVars>>

NextChunkText == CallChunkText

SpecChunkText == InitChunkText /\ [][NextChunkText]_vars

\* C24 as claimed: every chunk record of chunk_text has length equal to the
\* number of characters of its content.
ChunkLengthIsContentLength ==
    pc = "done" =>
        \A i \in 1..Len(chunks) : chunks[i].length = Len(chunks[i].content)

(***************************************************************************)
(* The knowledge base: BengaliRAGApp.setup_knowledge_base (main.py), the   *)
(* collection of VectorStore, startup_event and health_check (api.py) and  *)
(* main (main.py).                                                         *)
(***************************************************************************)
\* The defaults of chunk_text, with which process_document calls it.
DefaultChunkSize == 500
DefaultOverlap == 50

\* VectorStore.get_collection_count; collection.count() raises or answers.
get_collection_count(coll, count_raises) ==
    IF count_raises THEN 0 ELSE Len(coll)

\* DocumentProcessor.extract_text_from_pdf: the text of the pages, or ""
\* when opening or reading the file raises.
extract_text_from_pdf(extraction) ==
    IF extraction.raised THEN <<>> ELSE extraction.text

\* DocumentProcessor.process_document
process_document(extraction) ==
    LET extracted == extract_text_from_pdf(extraction)
    IN  IF extracted = <<>> THEN <<>>
        ELSE chunk_text(extracted, DefaultChunkSize, DefaultOverlap)

\* VectorStore.add_documents: the new collection and the returned flag.  A
\* document is stored under the id of its chunk ("chunk_<id>"); for ids that
\* are stored already the database either raises or keeps what it has.
add_documents(coll, doc_chunks, env) ==
    LET documents == [i \in 1..Len(doc_chunks) |->
                        [id |-> doc_chunks[i].id,
                         content |-> doc_chunks[i].content,
                         metadata |-> [length |-> doc_chunks[i].length,
                                       chunk_id |-> doc_chunks[i].id]]]
        stored == {coll[i].id : i \in 1..Len(coll)}
        fresh == Pick(documents,
                      [i \in 1..Len(documents) |-> documents[i].id \notin stored])
    IN  IF env.encode_raises \/ env.add_raises
           \/ (fresh # documents /\ env.duplicates = "raise")
        THEN [collection |-> coll, ok |-> FALSE]
        ELSE [collection |-> coll \o fresh, ok |-> TRUE]

\* The steps add_documents reaches.
AddSteps(env) == IF env.encode_raises THEN <<"embed">> ELSE <<"embed", "add">>

\* setup_knowledge_base after the count: extraction, segmentation, embedding
\* and insertion.  counted is what the database reported, if it did.
ProcessAndAdd(coll, env, counted) ==
    LET doc_chunks == process_document(env.extraction)
        added == add_documents(coll, doc_chunks, env)
        chunked == IF extract_text_from_pdf(env.extraction) = <<>>
                   THEN <<>> ELSE <<"chunk">>
    IN  IF doc_chunks = <<>>
        THEN [collection |-> coll, counted |-> counted,
              steps |-> <<"count", "extract">> \o chunked, result |-> "False"]
        ELSE [collection |-> added.collection, counted |-> counted,
              steps |-> <<"count", "extract", "chunk">> \o AddSteps(env),
              result |-> IF added.ok THEN "True" ELSE "False"]

\* What the database reported to get_collection_count.
Reported(coll, env) == IF env.count_raises THEN <<>> ELSE <<Len(coll)>>

\* setup_knowledge_base without the check of the count.
setup_knowledge_base_unchecked(coll, env) ==
    ProcessAndAdd(coll, env, Reported(coll, env))

\* BengaliRAGApp.setup_knowledge_base on the collection coll: the new
\* collection, the steps taken and the returned flag.
setup_knowledge_base(coll, env) ==
    IF get_collection_count(coll, env.count_raises) > 0
    THEN [collection |-> coll, counted |-> Reported(coll, env),
          steps |-> <<"count">>, result |-> "True"]
    ELSE ProcessAndAdd(coll, env, Reported(coll, env))

\* The texts a PDF yields: no page, an empty page, one sentence, two
\* sentences, and a text of two chunks.
PdfTexts ==
    {<<>>,
     <<"\n">>,
     <<"H", "e", " ", "i", "s", " ", "A", "n", "u", "p", "a", "m", ".">> \o <<"\n">>,
     <<"a", ".", " ", "b", ".", "\n">>,
     <<"a", "b", ".", " ">> \o Repeat("a", DefaultChunkSize) \o <<".", "\n">>}

Extractions ==
    {[raised |-> TRUE, text |-> <<>>]}
        \cup {[raised |-> FALSE, text |-> t] : t \in PdfTexts}

\* What the environment does during one call of setup_knowledge_base.
SetupEnvs ==
    [count_raises : BOOLEAN, extraction : Extractions,
     encode_raises : BOOLEAN, add_raises : BOOLEAN,
     duplicates : {"raise", "ignore"}]

MaxSetupCalls == 3

\* A call of setup_knowledge_base by a starting process.
SetupKnowledgeBase(env) ==
    /\ setup.calls < MaxSetupCalls
    /\ \E done \in {setup_knowledge_base(collection, env)} :
         /\ collection' = done.collection
         /\ setup' = [calls |-> setup.calls + 1, counted |-> done.counted,
                      steps |-> done.steps, result |-> done.result]

\* startup_event: the constructor of BengaliRAGApp raises or not; the
\* result of setup_knowledge_base is logged.
StartupEvent ==
    /\ pc = "boot"
    /\ pc' = "listen"
    /\ \/ /\ rag_app' = None
          /\ UNCHANGED <<collection, setup>>
       \/ /\ rag_app' = "BengaliRAGApp"
          /\ \E env \in SetupEnvs : SetupKnowledgeBase(env)
    /\ UNCHANGED <<health, splitVars, retrieverVars, detectVars, ragVars,
                   apiVars>>

\* GET /
HealthCheck ==
    /\ pc = "listen"
    /\ \E count_raises \in BOOLEAN :
         health' =
           IF rag_app = None
           THEN [status_code |-> 500, status |-> None, documents_count |-> 0]
           ELSE [status_code |-> 200, status |-> "healthy",
                 documents_count |->
                   get_collection_count(collection, count_raises)]
    /\ UNCHANGED <<pc, collection, rag_app, setup, splitVars, retrieverVars,
                   detectVars, ragVars, apiVars>>

\* main: without the PDF file it returns; after a failed setup it returns;
\* otherwise it runs the test cases and the interactive mode.
Main ==
    /\ pc = "boot"
    /\ \/ /\ pc' = "exited"
          /\ UNCHANGED <<collection, setup>>
       \/ \E env \in SetupEnvs :
            /\ SetupKnowledgeBase(env)
            /\ pc' = IF setup'.result = "True" THEN "interactive" ELSE "exited"
    /\ UNCHANGED <<rag_app, health, splitVars, retrieverVars, detectVars,
                   ragVars, apiVars>>

\* The process ends; the collection is on disk.
ProcessEnds ==
    /\ pc \in {"listen", "exited", "interactive"}
    /\ pc' = "boot"
    /\ rag_app' = None
    /\ health' = [status_code |-> 0, status |-> None, documents_count |-> 0]
    /\ UNCHANGED <<collection, setup, splitVars, retrieverVars, detectVars,
                   ragVars, apiVars>>

InitService ==
    /\ pc = "boot"
    /\ SplitIdle
    /\ RetrieverIdle
    /\ DetectIdle
    /\ RagIdle
    /\ ApiIdle
    /\ KbIdle

NextService == StartupEvent \/ HealthCheck \/ Main \/ ProcessEnds

SpecService == InitService /\ [][NextService]_vars

\* C22: a call of setup_knowledge_base to which the database reports a
\* count above 0 only counts, leaves the collection as it is and returns
\* True; a successful setup leaves documents in the collection, so every
\* later call to which the database reports its count leaves the number of
\* stored documents unchanged.
SetupIsIdempotent ==
    [][setup'.calls # setup.calls =>
         /\ (setup'.counted # <<>> /\ setup'.counted[1] > 0) =>
              /\ setup'.steps = <<"count">>
              /\ collection' = collection
              /\ setup'.result = "True"
         /\ setup'.result = "True" => collection' # <<>>
         /\ (setup.result = "True" /\ setup'.counted # <<>>) =>
              /\ Len(collection') = Len(collection)
              /\ setup'.result = "True"]_vars

\* C22 witness: a collection of two documents, and the last of several
\* calls of setup_knowledge_base only counted them.
SetupIsIdempotentWitness ==
    /\ Len(collection) = 2
    /\ setup.calls = MaxSetupCalls
    /\ setup.counted = <<2>>
    /\ setup.steps = <<"count">>
    /\ setup.result = "True"

\* C23 as claimed: after a setup_knowledge_base that returned False the
\* health endpoint does not answer "healthy" and main does not go on to
\* serve queries.
FailedSetupIsNeverReady ==
    setup.result = "False" =>
        /\ health.status # "healthy"
        /\ pc # "interactive"

(***************************************************************************)
(* A conversation made of generate_response calls only.                    *)
(***************************************************************************)
CallQuestions == {EnglishQuestion, BengaliQuestion}

CallServed ==
    /\ pc = "serve"
    /\ \E q \in CallQuestions, o \in ServedOutcomes : GenerateResponse(q, o)
    /\ UNCHANGED <<pc, splitVars, retrieverVars, detectVars, apiVars, kbVars>>

ConversationCleared ==
    /\ pc = "serve"
    /\ ClearConversation
    /\ UNCHANGED <<pc, splitVars, retrieverVars, detectVars, apiVars, kbVars>>

NextCalls == CallServed \/ ConversationCleared

SpecCalls == Init /\ [][NextCalls]_vars

\* C25: every generate_response call pushes exactly two turns, the user
\* query and then the assistant answer of that call, behind the turns of the
\* window, of which the newest that fit in 10 stay in their order; so the
\* window of a conversation of calls is the last pushed turns in push order,
\* at most 10, as many as were pushed since the last clear, alternating
\* user and assistant.
TurnsInCallOrder ==
    [][clock' # clock =>
         LET pushed == <<[content |-> question', timestamp |-> clock + 1,
                          type |-> "user"],
                         [content |-> response'.answer,
                          timestamp |-> clock + 2, type |-> "assistant"]>>
             all == conversation_history \o pushed
             n == Len(all)
             m == IF n < 10 THEN n ELSE 10
             window == conversation_history'
         IN  /\ clock' = clock + 2
             /\ window = SubSeq(all, n - m + 1, n)
             /\ \A i \in 1..Len(window) :
                  /\ window[i].timestamp = clock' - Len(window) + i
                  /\ window[i].type = IF (Len(window) - i) % 2 = 0
                                      THEN "assistant" ELSE "user"]_vars

\* C25 witness: six calls with both questions have filled the window and
\* evicted the turns of the first call.
TurnsInCallOrderWitness ==
    /\ clock = 12
    /\ Len(conversation_history) = 10
    /\ conversation_history[1].timestamp = 3
    /\ {conversation_history[i].content : i \in {1, 3, 5, 7, 9}} = CallQuestions
    /\ conversation_history[10].content = response.answer

(***************************************************************************)
(* generate_response statement by statement: pc is the statement that runs *)
(* next, response holds the locals and the returned dict.                  *)
(***************************************************************************)
InitPipeline ==
    /\ pc = "add_query"
    /\ conversation_history = <<>>
    /\ clock = 0
    /\ question \in Questions
    /\ search_outcome = [kind |-> "none", results |-> <<>>]
    /\ response = [NoResponse EXCEPT !.status = "running"]
    /\ SplitIdle
    /\ RetrieverIdle
    /\ DetectIdle
    /\ ApiIdle
    /\ KbIdle

PipelineRest == <<splitVars, retrieverVars, detectVars, apiVars, kbVars>>

\* self.add_to_conversation(query, "user")
AddQueryTurn ==
    /\ pc = "add_query"
    /\ pc' = "detect_language"
    /\ conversation_history' =
         add_to_conversation(conversation_history, question, "user", clock + 1)
    /\ clock' = clock + 1
    /\ UNCHANGED <<question, search_outcome, response, PipelineRest>>

\* language = self.detect_language(query)
DetectLanguageStep ==
    /\ pc = "detect_language"
    /\ pc' = "search_similar"
    /\ response' = [response EXCEPT !.language = detect_language(question)]
    /\ UNCHANGED <<conversation_history, clock, question, search_outcome,
                   PipelineRest>>

\* relevant_docs = self.vector_store.search_similar(query, n_results=3)
SearchSimilarStep ==
    /\ pc = "search_similar"
    /\ \E o \in SearchOutcomes :
         /\ search_outcome' = o
         /\ pc' = IF search_similar(o).docs = <<>> THEN "no_context"
                  ELSE "extract_answer"
    /\ UNCHANGED <<conversation_history, clock, question, response,
                   PipelineRest>>

\* The branch of an empty result: the template is pushed and returned.
NoContextStep ==
    /\ pc = "no_context"
    /\ pc' = "returned"
    /\ response' = NoContextReturn(response.language)
    /\ conversation_history' =
         add_to_conversation(conversation_history,
                             NoContextReturn(response.language).answer,
                             "assistant", clock + 1)
    /\ clock' = clock + 1
    /\ UNCHANGED <<question, search_outcome, PipelineRest>>

\* answer = self.extract_answer_from_context(query, contexts, language)
ExtractAnswerStep ==
    /\ pc = "extract_answer"
    /\ pc' = "confidence"
    /\ LET relevant_docs == search_similar(search_outcome).docs
           contexts == [i \in 1..Len(relevant_docs) |->
                          relevant_docs[i].content]
       IN  response' =
             [response EXCEPT
                !.answer = extract_answer_from_context(question, contexts,
                                                       response.language)]
    /\ UNCHANGED <<conversation_history, clock, question, search_outcome,
                   PipelineRest>>

\* avg_distance and confidence
ConfidenceStep ==
    /\ pc = "confidence"
    /\ pc' = "conversation_context"
    /\ response' =
         [response EXCEPT
            !.confidence = Confidence(search_similar(search_outcome).docs)]
    /\ UNCHANGED <<conversation_history, clock, question, search_outcome,
                   PipelineRest>>

\* conv_context = self.get_conversation_context(language)
ConversationContextStep ==
    /\ pc = "conversation_context"
    /\ pc' = "add_answer"
    /\ response' =
         [response EXCEPT
            !.conversation_context =
               get_conversation_context(conversation_history)]
    /\ UNCHANGED <<conversation_history, clock, question, search_outcome,
                   PipelineRest>>

\* self.add_to_conversation(answer, "assistant") and the return
AddAnswerTurn ==
    /\ pc = "add_answer"
    /\ pc' = "returned"
    /\ conversation_history' =
         add_to_conversation(conversation_history, response.answer,
                             "assistant", clock + 1)
    /\ clock' = clock + 1
    /\ LET relevant_docs == search_similar(search_outcome).docs
       IN  response' =
             [response EXCEPT
                !.status = "returned",
                !.keys = {"answer", "sources", "language", "confidence",
                          "conversation_context"},
                !.sources =
                   [i \in 1..Len(relevant_docs) |->
                      [content |->
                         FirstChars(relevant_docs[i].content, SnippetLimit)
                           \o <<".", ".", ".">>,
                       distance |-> relevant_docs[i].distance]]]
    /\ UNCHANGED <<question, search_outcome, PipelineRest>>

NextPipeline ==
    \/ AddQueryTurn
    \/ DetectLanguageStep
    \/ SearchSimilarStep
    \/ NoContextStep
    \/ ExtractAnswerStep
    \/ ConfidenceStep
    \/ ConversationContextStep
    \/ AddAnswerTurn

SpecPipeline == InitPipeline /\ [][NextPipeline]_vars

\* The statements of generate_response make up the call.
PipelineIsTheCall ==
    pc = "returned" =>
        LET call == generate_response(<<>>, 0, question, search_outcome)
        IN  /\ conversation_history = call.history
            /\ clock = call.now
            /\ response = call.response

\* C26 as claimed: no turn of the query is in the conversation memory
\* before the language is detected, the chunks are retrieved, the confidence
\* is scored and the answer is produced.
NoTurnBeforeAnswerIsProduced ==
    pc \in {"detect_language", "search_similar", "extract_answer",
            "confidence"}
        => conversation_history = <<>>

(***************************************************************************)
(* The sentence from which the key term is taken.                          *)
(***************************************************************************)
\* The number of tokens of the lowercase query that the lowercase sentence
\* contains.
TokensIn(sentence, query_words) ==
    Cardinality({k \in 1..Len(query_words) :
                   Contains(Lower(sentence), query_words[k])})

\* The indexes of the sentences that contain the highest number of tokens.
HighestCount(sentences, query_words) ==
    LET top == SetMax({TokensIn(sentences[i], query_words) :
                         i \in 1..Len(sentences)})
    IN  {i \in 1..Len(sentences) : TokensIn(sentences[i], query_words) = top}

InnerLineBreaks(txt) ==
    {i \in 1..Len(txt) :
        /\ txt[i] = "\n"
        /\ \E j \in 1..(i - 1) : ~IsSpace(txt[j])
        /\ \E j \in (i + 1)..Len(txt) : ~IsSpace(txt[j])}

\* C28 as claimed: a paragraph break or a line break between the words of
\* the input is still in the text after the normalization, where the
\* paragraph and line tiers can split at it.
LineBreaksSurviveNormalization ==
    (pc = "done" /\ InnerLineBreaks(text) /= {})
        => \E i \in 1..Len(NormalizeText(text)) : NormalizeText(text)[i] = "\n"

(***************************************************************************)
(* Termination of the splitter.                                            *)
(***************************************************************************)
\* The deepest tier at which _split_recursively(segment, separators[k:])
\* and its recursive calls are entered with a segment, k - 1 tiers having
\* been passed on the way.
RECURSIVE SplitDepth(_, _, _)
SplitDepth(segment, k, size) ==
    IF k > Len(Separators) \/ Len(segment) <= size
    THEN k - 1
    ELSE LET parts == ReSplit(Separators[k], segment)
             Part(i) == IF i < Len(parts)
                        THEN parts[i] \o SeparatorText(Separators[k])
                        ELSE parts[i]
         IN  SetMax({k} \cup {SplitDepth(Part(i), k + 1, size) :
                                i \in {j \in 1..Len(parts) :
                                         /\ Strip(parts[j]) /= <<>>
                                         /\ Len(Part(j)) > size}})

\* The values of chunk at the head of the while loop of the refinement
\* pass, for at most fuel iterations.
RECURSIVE RefineIterates(_, _, _, _)
RefineIterates(chunk, size, overlap, fuel) ==
    IF Len(chunk) > size /\ fuel > 0
    THEN <<chunk>> \o RefineIterates(SliceFrom(chunk, size - overlap), size,
                                     overlap, fuel - 1)
    ELSE <<chunk>>

\* C29: with chunk_size >= 1 and 0 <= chunk_overlap < chunk_size the call
\* returns for every text: the recursive splitting goes no deeper than the
\* five tiers, and every iteration of the refinement loop leaves a strictly
\* shorter chunk, until it fits.
SplitterTerminates ==
    /\ pc /= "running"
    /\ (pc = "done" /\ chunk_size >= 1 /\ chunk_overlap \in 0..(chunk_size - 1))
         => /\ SplitDepth(NormalizeText(text), 1, chunk_size) <= 5
            /\ \A i \in 1..Len(FinalChunksOfCall) :
                 \E its \in {RefineIterates(FinalChunksOfCall[i], chunk_size,
                                            chunk_overlap,
                                            Len(FinalChunksOfCall[i]))} :
                    /\ \A k \in 1..(Len(its) - 1) : Len(its[k + 1]) < Len(its[k])
                    /\ Len(its[Len(its)]) <= chunk_size

\* C29 witness: a returned call with an overlap whose splitting went down
\* to the tier of single characters and whose refinement loop ran more than
\* once on one chunk.
SplitterTerminatesWitness ==
    /\ pc = "done"
    /\ chunk_overlap > 0
    /\ SplitDepth(NormalizeText(text), 1, chunk_size) = 5
    /\ \E i \in 1..Len(FinalChunksOfCall) :
         Len(RefineIterates(FinalChunksOfCall[i], chunk_size, chunk_overlap,
                            Len(FinalChunksOfCall[i]))) > 2

\* C30: the answer extracted from a non-empty retrieval is a contiguous
\* piece of the contexts joined by spaces, or, only for a context of more
\* than 200 characters, its first 200 characters followed by "...".
AnswerIsFromContext ==
    (pc = "done" /\ search_outcome.results /= <<>>)
        => \E ctx \in {RetrievedContext} :
              \/ Contains(ctx, response.answer)
              \/ /\ Len(ctx) > 200
                 /\ response.answer = SubSeq(ctx, 1, 200) \o <<".", ".", ".">>

\* C30 witness: a context of more than 200 characters of which the answer
\* is a word, not the cut context.
AnswerIsFromContextWitness ==
    /\ pc = "done"
    /\ search_outcome.results /= <<>>
    /\ Len(RetrievedContext) > 200
    /\ Len(response.answer) \in 3..199
    /\ Contains(RetrievedContext, response.answer)
    /\ PatternStep(question, response.language, RetrievedContext) = <<>>

====
